---- MODULE Spec2Model ----
(***************************************************************************)
(* A model of the lol-ranking chat bot (src/app/main.go): the command      *)
(* handlers of messageCreate and handleDayStatsCommand, the rank ordering  *)
(* of getRankValues and the day window of the day-stats command.           *)
(*                                                                         *)
(* Go strings are modelled as sequences of one-character strings, so that  *)
(* strings.Split, strings.ToUpper and strings.HasPrefix are computed and   *)
(* not assumed.                                                            *)
(***************************************************************************)
EXTENDS Integers, Sequences, FiniteSets, TLC

(***************************************************************************)
(* Strings                                                                 *)
(***************************************************************************)
LowerChars == <<"a", "b", "c", "d", "e", "f", "g", "h", "i", "j", "k", "l", "m", "n", "o", "p", "q", "r", "s", "t", "u", "v", "w", "x", "y", "z">>

UpperChars == <<"A", "B", "C", "D", "E", "F", "G", "H", "I", "J", "K", "L", "M", "N", "O", "P", "Q", "R", "S", "T", "U", "V", "W", "X", "Y", "Z">>

Digits == <<"0", "1", "2", "3", "4", "5", "6", "7", "8", "9">>

\* unicode.ToUpper on one (ASCII) character
ToUpperChar(c) ==
    IF \E k \in 1..Len(LowerChars) : LowerChars[k] = c
    THEN UpperChars[CHOOSE k \in 1..Len(LowerChars) : LowerChars[k] = c]
    ELSE c

\* strings.ToUpper
ToUpper(s) == [k \in 1..Len(s) |-> ToUpperChar(s[k])]

\* the inverse mapping, used only to build mixed-case inputs
ToLowerChar(c) ==
    IF \E k \in 1..Len(UpperChars) : UpperChars[k] = c
    THEN LowerChars[CHOOSE k \in 1..Len(UpperChars) : UpperChars[k] = c]
    ELSE c

ToLower(s) == [k \in 1..Len(s) |-> ToLowerChar(s[k])]

\* first letter kept, the rest lowered ("Gold")
Capitalize(s) == [k \in 1..Len(s) |-> IF k = 1 THEN s[k] ELSE ToLowerChar(s[k])]

\* strings.HasPrefix
HasPrefix(s, p) == Len(s) >= Len(p) /\ SubSeq(s, 1, Len(p)) = p

RECURSIVE SplitFrom(_, _, _, _)
\* the pieces of s from position k on, cur being the piece under construction
SplitFrom(s, sep, k, cur) ==
    IF k > Len(s) THEN <<cur>>
    ELSE IF s[k] = sep THEN <<cur>> \o SplitFrom(s, sep, k + 1, <<>>)
    ELSE SplitFrom(s, sep, k + 1, Append(cur, s[k]))

\* strings.Split(s, sep) for a one-character separator: always at least one piece
Split(s, sep) == SplitFrom(s, sep, 1, <<>>)

RECURSIVE Join(_, _)
\* strings.Join(parts, sep)
Join(parts, sep) ==
    IF Len(parts) = 0 THEN <<>>
    ELSE IF Len(parts) = 1 THEN parts[1]
    ELSE parts[1] \o <<sep>> \o Join(Tail(parts), sep)

\* a Go map lookup: the zero value for a missing key
MapGet(m, k) == IF k \in DOMAIN m THEN m[k] ELSE 0

(***************************************************************************)
(* Rank ordering: getRankValues                                            *)
(***************************************************************************)
tierMap ==
    (<<"C", "H", "A", "L", "L", "E", "N", "G", "E", "R">> :> 10) @@ (<<"G", "R", "A", "N", "D", "M", "A", "S", "T", "E", "R">> :> 9) @@ (<<"M", "A", "S", "T", "E", "R">> :> 8) @@
    (<<"D", "I", "A", "M", "O", "N", "D">> :> 7) @@ (<<"E", "M", "E", "R", "A", "L", "D">> :> 6) @@ (<<"P", "L", "A", "T", "I", "N", "U", "M">> :> 5) @@
    (<<"G", "O", "L", "D">> :> 4) @@ (<<"S", "I", "L", "V", "E", "R">> :> 3) @@ (<<"B", "R", "O", "N", "Z", "E">> :> 2) @@
    (<<"I", "R", "O", "N">> :> 1) @@ (<<"U", "N", "R", "A", "N", "K", "E", "D">> :> 0)

rankMap ==
    (<<"I">> :> 4) @@ (<<"I", "I">> :> 3) @@ (<<"I", "I", "I">> :> 2) @@ (<<"I", "V">> :> 1) @@ (<<>> :> 0)

\* a case-sensitive lookup: the mapping without strings.ToUpper
getRankValuesCaseSensitive(tier, rank) ==
    <<MapGet(tierMap, tier), MapGet(rankMap, rank)>>

getRankValues(tier, rank) ==
    <<MapGet(tierMap, ToUpper(tier)), MapGet(rankMap, ToUpper(rank))>>

(***************************************************************************)
(* Time: instants are Unix seconds; the civil fields are those of the      *)
(* fixed zone jst := time.FixedZone("Asia/Tokyo", 9*60*60).                *)
(***************************************************************************)
jstOffset == 9 * 60 * 60

SecondsPerDay == 24 * 60 * 60

\* days from 1970-01-01 to the civil date y-m-d; d may lie outside the month,
\* which is how time.Date normalises an overflowing day
DaysFromCivil(y, m, d) ==
    LET yy  == IF m <= 2 THEN y - 1 ELSE y
        era == yy \div 400
        yoe == yy - era * 400
        mp  == IF m > 2 THEN m - 3 ELSE m + 9
        doy == (153 * mp + 2) \div 5 + d - 1
        doe == yoe * 365 + yoe \div 4 - yoe \div 100 + doy
    IN  era * 146097 + doe - 719468

\* the civil date of a day number: <<year, month, day>>
CivilFromDays(z) ==
    LET zz  == z + 719468
        era == zz \div 146097
        doe == zz - era * 146097
        yoe == (doe - doe \div 1460 + doe \div 36524 - doe \div 146096) \div 365
        doy == doe - (365 * yoe + yoe \div 4 - yoe \div 100)
        mp  == (5 * doy + 2) \div 153
        d   == doy - (153 * mp + 2) \div 5 + 1
        m   == IF mp < 10 THEN mp + 3 ELSE mp - 9
        y   == yoe + era * 400
    IN  <<IF m <= 2 THEN y + 1 ELSE y, m, d>>

\* time.Date(y, m, d, hh, mi, ss, 0, jst)
TimeDate(y, m, d, hh, mi, ss) ==
    DaysFromCivil(y, m, d) * SecondsPerDay + hh * 3600 + mi * 60 + ss - jstOffset

\* t.Year(), t.Month(), t.Day(), t.Hour(), t.Minute(), t.Second() of t.In(jst)
Year(t) == CivilFromDays((t + jstOffset) \div SecondsPerDay)[1]

Month(t) == CivilFromDays((t + jstOffset) \div SecondsPerDay)[2]

Day(t) == CivilFromDays((t + jstOffset) \div SecondsPerDay)[3]

Hour(t) == ((t + jstOffset) % SecondsPerDay) \div 3600

Minute(t) == (((t + jstOffset) % SecondsPerDay) % 3600) \div 60

Second(t) == ((t + jstOffset) % SecondsPerDay) % 60

\* t.AddDate(0, 0, days)
AddDate(t, days) ==
    TimeDate(Year(t), Month(t), Day(t) + days, Hour(t), Minute(t), Second(t))

IsLeap(y) == y % 4 = 0 /\ (y % 100 # 0 \/ y % 400 = 0)

\* the number of days of month m of year y
daysIn(m, y) ==
    IF m = 2 THEN (IF IsLeap(y) THEN 29 ELSE 28)
    ELSE IF m \in {4, 6, 9, 11} THEN 30 ELSE 31

IsDigit(c) == \E k \in 1..Len(Digits) : Digits[k] = c

DigitValue(c) == (CHOOSE k \in 1..Len(Digits) : Digits[k] = c) - 1

RECURSIVE Atoi(_)
\* the number written by a sequence of digits
Atoi(s) == IF Len(s) = 0 THEN 0
           ELSE Atoi(SubSeq(s, 1, Len(s) - 1)) * 10 + DigitValue(s[Len(s)])

\* time.ParseInLocation("20060102", dateStr, jst): four digits of year, two of
\* month, two of day, nothing more; the month and the day must be in range
ParseInLocation(dateStr) ==
    IF Len(dateStr) # 8 \/ \E k \in 1..Len(dateStr) : ~IsDigit(dateStr[k])
    THEN [err |-> TRUE, t |-> 0]
    ELSE LET y == Atoi(SubSeq(dateStr, 1, 4))
             m == Atoi(SubSeq(dateStr, 5, 6))
             d == Atoi(SubSeq(dateStr, 7, 8))
         IN  IF m < 1 \/ m > 12 \/ d < 1 \/ d > daysIn(m, y)
             THEN [err |-> TRUE, t |-> 0]
             ELSE [err |-> FALSE, t |-> TimeDate(y, m, d, 0, 0, 0)]

\* the day is taken as it is: no step back before 05:00
TargetDateNowNoShift(nowT) == nowT

\* the effective day when no date is given: yesterday before 05:00
TargetDateNow(nowT) == IF Hour(nowT) < 5 THEN AddDate(nowT, -1) ELSE nowT

\* startTime := time.Date(targetDate.Year(), targetDate.Month(), targetDate.Day(), 5, 0, 0, 0, jst)
WindowStart(targetDate) ==
    TimeDate(Year(targetDate), Month(targetDate), Day(targetDate), 5, 0, 0)

\* an end one second short of the next day's 05:00
WindowEndInclusive(startTime) == AddDate(startTime, 1) - 1

\* endTime := startTime.AddDate(0, 0, 1)
WindowEnd(startTime) == AddDate(startTime, 1)

\* the window of the day-stats command for a date argument ("" when absent)
\* and a clock reading: a parse error, or startTimeUnix and endTimeUnix
DayWindow(dateStr, nowT) ==
    IF dateStr = <<>>
    THEN LET startTime == WindowStart(TargetDateNow(nowT))
         IN  [err |-> FALSE, start |-> startTime, end |-> WindowEnd(startTime)]
    ELSE LET parsed == ParseInLocation(dateStr)
         IN  IF parsed.err
             THEN [err |-> TRUE, start |-> 0, end |-> 0]
             ELSE LET startTime == WindowStart(parsed.t)
                  IN  [err |-> FALSE, start |-> startTime, end |-> WindowEnd(startTime)]

\* a window that takes its end as well
InWindowEndInclusive(matchTimeUnix, startTimeUnix, endTimeUnix) ==
    matchTimeUnix >= startTimeUnix /\ matchTimeUnix <= endTimeUnix

\* the re-check of a match's creation time against the window
InWindow(matchTimeUnix, startTimeUnix, endTimeUnix) ==
    matchTimeUnix >= startTimeUnix /\ matchTimeUnix < endTimeUnix

(***************************************************************************)
(* Bounds of the model                                                     *)
(***************************************************************************)
\* the longest roster (LOL_PLAYERS) the program starts with
MaxRoster == 3

\* the most arguments of a !rank message
MaxArgs == 2

\* the most match ids the match-id query returns
MaxMatches == 2

\* the longest roster the program starts with when every command is modelled
MaxRosterAll == 1

\* the number of !add invocations running at the same time
MaxOverlap == 2

(***************************************************************************)
(* Program constants and the inputs the model draws from                   *)
(***************************************************************************)
rankedSoloQueueID == 420

RankedFlexQueueID == 440

RANKED_SOLO == <<"R", "A", "N", "K", "E", "D", "_", "S", "O", "L", "O", "_", "5", "x", "5">>

RANKED_FLEX == <<"R", "A", "N", "K", "E", "D", "_", "F", "L", "E", "X", "_", "S", "R">>

UNRANKED == <<"U", "N", "R", "A", "N", "K", "E", "D">>

\* identities: well formed, without separator, with an empty tag
RosterIds == {<<"a", "#", "b">>, <<"b", "#", "a">>, <<"a">>, <<"a", "#">>}

\* identities given to !add and !daystats: also an empty name, two separators
OtherIds == RosterIds \cup {<<"#", "b">>, <<"a", "#", "b", "#", "a">>}

\* the rosters of the leaderboard specification
Rosters == UNION {[1..n -> {<<"a", "#", "b">>, <<"b", "#", "a">>, <<"a">>}] : n \in 0..MaxRoster}

SmallRosters == UNION {[1..n -> RosterIds] : n \in 0..MaxRosterAll}

LeagueEntry(queueType, tier, rank, leaguePoints) ==
    [QueueType |-> queueType, Tier |-> tier, Rank |-> rank,
     LeaguePoints |-> leaguePoints, Wins |-> 1, Losses |-> 0]

\* the league-entries lists the remote service answers with
LeagueResponses ==
    { <<>>,
      <<LeagueEntry(RANKED_FLEX, <<"C", "H", "A", "L", "L", "E", "N", "G", "E", "R">>, <<"I">>, 900)>>,
      <<LeagueEntry(RANKED_SOLO, <<"I", "R", "O", "N">>, <<"I", "V">>, 0)>>,
      <<LeagueEntry(RANKED_SOLO, <<"W", "O", "O", "D">>, <<"V">>, 0)>>,
      <<LeagueEntry(RANKED_FLEX, <<"D", "I", "A", "M", "O", "N", "D">>, <<"I">>, 10),
        LeagueEntry(RANKED_SOLO, <<"G", "O", "L", "D">>, <<"I", "I">>, 50)>>,
      <<LeagueEntry(RANKED_SOLO, <<"g", "o", "l", "d">>, <<"i", "i">>, 50)>>,
      <<LeagueEntry(RANKED_SOLO, <<"G", "O", "L", "D">>, <<"I", "I">>, 75)>>,
      <<LeagueEntry(RANKED_SOLO, <<"G", "O", "L", "D">>, <<"I">>, 20)>> }

\* the league-entries lists the remote service answers !rank with
RankLeagueResponses ==
    { <<>>,
      <<LeagueEntry(RANKED_FLEX, <<"D", "I", "A", "M", "O", "N", "D">>, <<"I">>, 10),
        LeagueEntry(RANKED_SOLO, <<"G", "O", "L", "D">>, <<"I", "I">>, 50)>>,
      <<LeagueEntry(RANKED_FLEX, <<"C", "H", "A", "L", "L", "E", "N", "G", "E", "R">>, <<"I">>, 900)>> }

\* the PUUID the account call resolves the player to, and another player's
MyPUUID == "puuid-1"

OtherPUUID == "puuid-2"

Participant(puuid, win) == [PUUID |-> puuid, Win |-> win]

\* Info.GameCreation, Unix milliseconds, is held as <<seconds, milliseconds>>,
\* standing for seconds * 1000 + milliseconds with milliseconds in 0..999
Millis(seconds, milliseconds) == <<seconds, milliseconds>>

MatchDTO(gameCreation, queueID, participants) ==
    [GameCreation |-> gameCreation, QueueID |-> queueID, Participants |-> participants]

\* the match details the remote service answers with, around a window
MatchResponses(startTimeUnix, endTimeUnix) ==
    { MatchDTO(Millis(startTimeUnix, 0), rankedSoloQueueID,
               <<Participant(OtherPUUID, FALSE), Participant(MyPUUID, TRUE)>>),
      MatchDTO(Millis(startTimeUnix - 1, 999), rankedSoloQueueID,
               <<Participant(MyPUUID, TRUE)>>),
      MatchDTO(Millis(endTimeUnix - 1, 999), rankedSoloQueueID,
               <<Participant(MyPUUID, FALSE)>>),
      MatchDTO(Millis(endTimeUnix, 0), rankedSoloQueueID,
               <<Participant(MyPUUID, TRUE)>>),
      MatchDTO(Millis(endTimeUnix, 999), rankedSoloQueueID,
               <<Participant(MyPUUID, FALSE)>>),
      MatchDTO(Millis(startTimeUnix, 999), RankedFlexQueueID,
               <<Participant(MyPUUID, TRUE)>>),
      MatchDTO(Millis(startTimeUnix + 1, 0), rankedSoloQueueID,
               <<Participant(OtherPUUID, TRUE)>>) }

\* the ids the match-id query answers with: "m1", ..., "mk"
MatchIdLists == {[k \in 1..n |-> k] : n \in 0..MaxMatches}

\* clock readings (JST): around 05:00, at the ends of months and years
ClockDates == {<<2023, 12, 31>>, <<2024, 1, 1>>, <<2024, 2, 29>>, <<2024, 3, 1>>,
               <<2023, 3, 1>>, <<2024, 6, 15>>}

ClockTimes == {<<0, 0, 0>>, <<4, 30, 0>>, <<4, 59, 59>>, <<5, 0, 0>>, <<5, 1, 0>>,
               <<12, 0, 0>>, <<23, 59, 59>>}

\* a clock reading: <<year, month, day>> and <<hour, minute, second>> in JST
ClockReadings == ClockDates \X ClockTimes

\* the instant of a clock reading
Instant(reading) ==
    TimeDate(reading[1][1], reading[1][2], reading[1][3],
             reading[2][1], reading[2][2], reading[2][3])

\* date arguments with the calendar date each one writes, <<>> for one that
\* is no date: too short, too long, not digits, or a day or month out of range
DateCase(str, date) == [str |-> str, date |-> date]

DateCases ==
    { DateCase(<<"2", "0", "2", "4", "0", "1", "0", "1">>, <<2024, 1, 1>>),
      DateCase(<<"2", "0", "2", "3", "1", "2", "3", "1">>, <<2023, 12, 31>>),
      DateCase(<<"2", "0", "2", "4", "0", "2", "2", "9">>, <<2024, 2, 29>>),
      DateCase(<<"2", "0", "2", "4", "0", "1", "3", "1">>, <<2024, 1, 31>>),
      DateCase(<<"2", "0", "2", "3", "0", "2", "2", "8">>, <<2023, 2, 28>>),
      DateCase(<<"2", "0", "0", "0", "0", "2", "2", "9">>, <<2000, 2, 29>>),
      DateCase(<<"2", "0", "2", "3", "0", "2", "2", "9">>, <<>>),
      DateCase(<<"2", "0", "2", "4", "0", "2", "3", "0">>, <<>>),
      DateCase(<<"2", "0", "2", "4", "1", "3", "0", "1">>, <<>>),
      DateCase(<<"2", "0", "2", "4", "0", "1", "0", "0">>, <<>>),
      DateCase(<<"2", "0", "2", "4", "0", "4", "3", "1">>, <<>>),
      DateCase(<<"2", "0", "2", "4", "0", "1", "1">>, <<>>),
      DateCase(<<"2", "0", "2", "4", "0", "1", "0", "1", "1">>, <<>>),
      DateCase(<<"2", "0", "2", "4", "0", "1", "0", "a">>, <<>>) }

DateArgs == {c.str : c \in DateCases}

\* the clock readings and date arguments of the command model
CommandClocks == {TimeDate(2024, 1, 1, 4, 30, 0), TimeDate(2024, 1, 1, 5, 1, 0)}

CommandDateArgs == {<<"2", "0", "2", "4", "0", "1", "0", "1">>, <<"2", "0", "2", "4", "0", "2", "3", "0">>}

BotID == "bot"

UserID == "user"

\* m.Content of the messages received
RankContents ==
    {Join(<<<<"!", "r", "a", "n", "k">>>> \o args, " ") :
        args \in UNION {[1..n -> RosterIds] : n \in 0..MaxArgs}}

AddContents == {<<"!", "a", "d", "d", " ">> \o id : id \in OtherIds} \cup {<<"!", "a", "d", "d", " ">>, <<"!", "a", "d", "d", " ", " ", "a", "#", "b", " ">>}

DayStatsContents ==
    {<<"!", "d", "a", "y", "s", "t", "a", "t", "s", " ">> \o id : id \in OtherIds} \cup
    {<<"!", "d", "a", "y", "s", "t", "a", "t", "s", " ", "a", "#", "b", " ">> \o d : d \in CommandDateArgs} \cup {<<"!", "d", "a", "y", "s", "t", "a", "t", "s", " ">>}

Contents ==
    {<<"!", "r", "a", "n", "k", "i", "n", "g">>, <<"!", "h", "e", "l", "p">>, <<"!", "r", "a", "n", "k", "i", "n", "g", " ", "x">>, <<"!", "r", "a", "n", "k", "i", "n", "g", "a", "#", "b">>, <<"h", "e", "l", "l", "o">>, <<"!", "a", "d", "d">>, <<"!", "d", "a", "y", "s", "t", "a", "t", "s">>}
    \cup RankContents \cup AddContents \cup DayStatsContents

\* the lines of ../.env: absent, or the roster's line among other keys
EnvFileOf(roster) ==
    LET line == <<"L", "O", "L", "_", "P", "L", "A", "Y", "E", "R", "S", "=">> \o Join(roster, ",")
    IN  { [exists |-> FALSE, lines |-> <<>>],
          [exists |-> TRUE, lines |-> <<<<"D", "I", "S", "C", "O", "R", "D", "_", "T", "O", "K", "E", "N", "=", "t">>, line, <<"R", "I", "O", "T", "_", "A", "P", "I", "_", "K", "E", "Y", "=", "k">>, <<>>>>],
          [exists |-> TRUE, lines |-> <<<<"D", "I", "S", "C", "O", "R", "D", "_", "T", "O", "K", "E", "N", "=", "t">>>>] }

\* ../.env as it may be found, whatever the roster in memory (which init reads
\* from the process environment): absent, empty, without the key, with it,
\* with or without final newline, with empty lines, with look-alike keys
EnvFiles ==
    { [exists |-> FALSE, lines |-> <<>>],
      [exists |-> TRUE, lines |-> <<<<>>>>],
      [exists |-> TRUE, lines |-> <<<<"D", "I", "S", "C", "O", "R", "D", "_", "T", "O", "K", "E", "N", "=", "t">>, <<>>>>],
      [exists |-> TRUE, lines |-> <<<<"D", "I", "S", "C", "O", "R", "D", "_", "T", "O", "K", "E", "N", "=", "t">>>>],
      [exists |-> TRUE, lines |-> <<<<"D", "I", "S", "C", "O", "R", "D", "_", "T", "O", "K", "E", "N", "=", "t">>, <<"L", "O", "L", "_", "P", "L", "A", "Y", "E", "R", "S", "=", "a", "#", "b">>, <<"R", "I", "O", "T", "_", "A", "P", "I", "_", "K", "E", "Y", "=", "k">>, <<>>>>],
      [exists |-> TRUE, lines |-> <<<<"L", "O", "L", "_", "P", "L", "A", "Y", "E", "R", "S", "=">>, <<"R", "I", "O", "T", "_", "A", "P", "I", "_", "K", "E", "Y", "=", "k">>, <<>>>>],
      [exists |-> TRUE, lines |-> <<<<"L", "O", "L", "_", "P", "L", "A", "Y", "E", "R", "S", "=", "a", "#", "b", ",">>, <<>>>>],
      [exists |-> TRUE, lines |-> <<<<"L", "O", "L", "_", "P", "L", "A", "Y", "E", "R", "S", "=", "a", "#", "b", ",", "b", "#", "a">>>>],
      [exists |-> TRUE, lines |-> <<<<"A", "=", "1">>, <<>>, <<"L", "O", "L", "_", "P", "L", "A", "Y", "E", "R", "S", "=", "b", "#", "a">>, <<>>, <<>>, <<>>>>],
      [exists |-> TRUE, lines |-> <<<<"A", "=", "1">>, <<>>, <<>>, <<>>>>],
      [exists |-> TRUE, lines |-> <<<<"L", "O", "L", "_", "P", "L", "A", "Y", "E", "R", "S", "=", "a", "#", "b", ",", "a", "#", "b">>, <<>>>>],
      [exists |-> TRUE, lines |-> <<<<"#", "L", "O", "L", "_", "P", "L", "A", "Y", "E", "R", "S", "=", "a", "#", "b">>, <<"X", "L", "O", "L", "_", "P", "L", "A", "Y", "E", "R", "S", "=", "b", "#", "a">>, <<>>>>],
      [exists |-> TRUE, lines |-> <<<<"L", "O", "L", "_", "P", "L", "A", "Y", "E", "R", "S", "=", "a", "#", "b", "b", ",", "x", "a", "#", "b", ",", "b", "#">>, <<>>>>] }

(***************************************************************************)
(* State                                                                   *)
(***************************************************************************)
VARIABLES
    lolPlayersEnv,   \* the in-memory roster
    envFile,         \* ../.env: [exists, lines]
    pc,              \* the handler's position; "idle" between messages
    msg,             \* the message being handled: [author, content]
    i,               \* the index of the loop the handler is in
    summonerNames,   \* !rank: the arguments
    playerRanks,     \* !ranking: the PlayerRankInfo collected, then sorted
    rankedMessages,  \* !ranking: the title and the numbered lines
    rankInfos,       \* !rank: one line per argument
    processingMsg,   \* whether the placeholder message was posted
    riotID,          \* !add, !daystats: the identity argument
    window,          \* !daystats: [start, end], Unix seconds
    matchIDs,        \* !daystats: the ids the match-id query returned
    wins,
    losses,
    chat,            \* the messages sent and edited: [op, text, ok]
    calls,           \* history: the remote calls issued by this invocation
    delayed,         \* history: time.Sleep(apiRequestDelay) ran since the last call
    appended,        \* history: playerRanks as collected, before the sort
    fromEntry,       \* history: whether appended[k] came from a ranked-solo entry
    rvIn,            \* getRankValues: two (tier, rank) inputs
    rvOut,           \* getRankValues: their results
    dwIn,            \* DayWindow: [dateStr, now]
    dwOut,           \* DayWindow: its result
    adds             \* overlapping !add invocations: [pc, riotID, value, file, roster] each

handlerVars == <<pc, msg, i, summonerNames, playerRanks, rankedMessages, rankInfos, processingMsg,
                 riotID, window, matchIDs, wins, losses>>

historyVars == <<calls, delayed, appended, fromEntry>>

pureVars == <<rvIn, rvOut, dwIn, dwOut>>

vars == <<lolPlayersEnv, envFile, handlerVars, chat, historyVars, pureVars, adds>>

(***************************************************************************)
(* The leaderboard: collecting, sorting, rendering                         *)
(***************************************************************************)
PlayerRankInfo(id, tier, rank, leaguePoints, tierValue, rankValue) ==
    [RiotID |-> id, Tier |-> tier, Rank |-> rank, LeaguePoints |-> leaguePoints,
     TierValue |-> tierValue, RankValue |-> rankValue]

\* whether the list holds a ranked-solo entry
HasSolo(leagueEntries) ==
    \E k \in 1..Len(leagueEntries) : leagueEntries[k].QueueType = RANKED_SOLO

\* the first ranked-solo entry of the list
FirstSolo(leagueEntries) ==
    leagueEntries[CHOOSE k \in 1..Len(leagueEntries) :
        /\ leagueEntries[k].QueueType = RANKED_SOLO
        /\ \A j \in 1..(k - 1) : leagueEntries[j].QueueType # RANKED_SOLO]

\* the unranked result with the ordinals getRankValues gives "UNRANKED"
UnrankedInfoZero(id) == PlayerRankInfo(id, UNRANKED, <<>>, 0, 0, 0)

\* the result synthesized for a player without ranked-solo entry
UnrankedInfo(id) == PlayerRankInfo(id, UNRANKED, <<>>, 0, -1, -1)

\* the result of a player with a ranked-solo entry
RankedInfo(id, entry) ==
    LET v == getRankValues(entry.Tier, entry.Rank)
    IN  PlayerRankInfo(id, entry.Tier, entry.Rank, entry.LeaguePoints, v[1], v[2])

\* a player without ranked-solo entry is left out
AppendRankOmitUnranked(ranks, id, leagueEntries) ==
    IF HasSolo(leagueEntries)
    THEN Append(ranks, RankedInfo(id, FirstSolo(leagueEntries)))
    ELSE ranks

\* playerRanks after the league entries of one player were fetched
AppendRank(ranks, id, leagueEntries) ==
    IF HasSolo(leagueEntries)
    THEN Append(ranks, RankedInfo(id, FirstSolo(leagueEntries)))
    ELSE Append(ranks, UnrankedInfo(id))

\* the comparator without the division
lessNoRank(a, b) ==
    IF a.TierValue # b.TierValue THEN a.TierValue > b.TierValue
    ELSE a.LeaguePoints > b.LeaguePoints

\* the comparator with >= on the points: equal keys are "less" both ways
lessOrEqual(a, b) ==
    IF a.TierValue # b.TierValue THEN a.TierValue > b.TierValue
    ELSE IF a.RankValue # b.RankValue THEN a.RankValue > b.RankValue
    ELSE a.LeaguePoints >= b.LeaguePoints

\* the comparator given to sort.SliceStable
less(a, b) ==
    IF a.TierValue # b.TierValue THEN a.TierValue > b.TierValue
    ELSE IF a.RankValue # b.RankValue THEN a.RankValue > b.RankValue
    ELSE a.LeaguePoints > b.LeaguePoints

RECURSIVE InsertSorted(_, _)
\* the inner loop of the insertion sort: x moves left while less(x, its left neighbour)
InsertSorted(sorted, x) ==
    IF Len(sorted) = 0 \/ ~less(x, sorted[Len(sorted)])
    THEN Append(sorted, x)
    ELSE Append(InsertSorted(SubSeq(sorted, 1, Len(sorted) - 1), x), sorted[Len(sorted)])

RECURSIVE SliceStableFrom(_, _, _)
SliceStableFrom(sorted, s, k) ==
    IF k > Len(s) THEN sorted
    ELSE SliceStableFrom(InsertSorted(sorted, s[k]), s, k + 1)

\* sort.SliceStable on fewer than 20 elements: one insertion sort
SliceStable(s) == SliceStableFrom(<<>>, s, 1)

\* strings.Title(strings.ToLower(s)) of one word
TitleLower(s) == [k \in 1..Len(s) |-> IF k = 1 THEN ToUpperChar(s[k]) ELSE ToLowerChar(s[k])]

\* one numbered line: position, identity, whether a profile link was built, and
\* the standing shown, "(UNRANKED)" or "(Tier Division NNNLP)"
RenderLine(pos, pr) ==
    [pos      |-> pos,
     riotID   |-> pr.RiotID,
     linked   |-> Len(Split(pr.RiotID, "#")) = 2,
     unranked |-> pr.Tier = UNRANKED,
     tier     |-> IF pr.Tier = UNRANKED THEN <<>> ELSE TitleLower(pr.Tier),
     rank     |-> IF pr.Tier = UNRANKED THEN <<>> ELSE pr.Rank,
     lp       |-> IF pr.Tier = UNRANKED THEN 0 ELSE pr.LeaguePoints]

\* the numbered lines of the sorted results
RenderLines(ranks) == [k \in 1..Len(ranks) |-> RenderLine(k, ranks[k])]

Text(kind, body) == [kind |-> kind, body |-> body]

(***************************************************************************)
(* The roster file                                                         *)
(***************************************************************************)
LOL_PLAYERS == <<"L", "O", "L", "_", "P", "L", "A", "Y", "E", "R", "S">>

\* the index of the first line starting with key=, or 0
FirstKeyLine(lines, key) ==
    IF \E k \in 1..Len(lines) : HasPrefix(lines[k], key \o <<"=">>)
    THEN CHOOSE k \in 1..Len(lines) :
            /\ HasPrefix(lines[k], key \o <<"=">>)
            /\ \A j \in 1..(k - 1) : ~HasPrefix(lines[j], key \o <<"=">>)
    ELSE 0

RECURSIVE TrimRightNewlines(_)
\* strings.TrimRight(output, "\n") on the lines of output
TrimRightNewlines(lines) ==
    IF Len(lines) > 1 /\ lines[Len(lines)] = <<>>
    THEN TrimRightNewlines(SubSeq(lines, 1, Len(lines) - 1))
    ELSE lines

\* a rewrite that keeps the key's line only
UpdatedLinesKeyOnly(lines, key, value) == <<key \o <<"=">> \o value, <<>>>>

\* the lines updateEnvFile writes for the lines it read
UpdatedLines(lines, key, value) ==
    LET kv    == key \o <<"=">> \o value
        k     == FirstKeyLine(lines, key)
        found == k # 0
        set   == IF found THEN [lines EXCEPT ![k] = kv]
                 ELSE IF lines[Len(lines)] = <<>>
                      THEN [lines EXCEPT ![Len(lines)] = kv] \o <<<<>>>>
                      ELSE Append(lines, kv)
    IN  TrimRightNewlines(set) \o <<<<>>>>

\* the file after updateEnvFile(key, value) succeeded
updateEnvFile(file, key, value) ==
    IF ~file.exists
    THEN [exists |-> TRUE, lines |-> <<key \o <<"=">> \o value, <<>>>>]
    ELSE [exists |-> TRUE, lines |-> UpdatedLines(file.lines, key, value)]

\* the players of the file's LOL_PLAYERS line
CurrentPlayers(lines) ==
    LET k == FirstKeyLine(lines, LOL_PLAYERS)
    IN  IF k = 0 THEN <<>>
        ELSE LET value == SubSeq(lines[k], Len(LOL_PLAYERS) + 2, Len(lines[k]))
             IN  IF value = <<>> THEN <<>> ELSE Split(value, ",")

\* the sequence without its empty elements
Cleaned(players) ==
    LET keep == {k \in 1..Len(players) : players[k] # <<>>}
        nth(n) == CHOOSE k \in keep : Cardinality({j \in keep : j < k}) = n - 1
    IN  [n \in 1..Cardinality(keep) |-> players[nth(n)]]

\* an upsert without the duplicate check
addPlayerToEnvFileAlways(file, newPlayerRiotID) ==
    IF ~file.exists THEN updateEnvFile(file, LOL_PLAYERS, newPlayerRiotID)
    ELSE updateEnvFile(file, LOL_PLAYERS,
            Join(Cleaned(Append(CurrentPlayers(file.lines), newPlayerRiotID)), ","))

\* the file after addPlayerToEnvFile(newPlayerRiotID) succeeded
addPlayerToEnvFile(file, newPlayerRiotID) ==
    IF ~file.exists THEN updateEnvFile(file, LOL_PLAYERS, newPlayerRiotID)
    ELSE LET currentPlayers == CurrentPlayers(file.lines)
         IN  IF \E k \in 1..Len(currentPlayers) : currentPlayers[k] = newPlayerRiotID
             THEN file
             ELSE updateEnvFile(file, LOL_PLAYERS,
                                Join(Cleaned(Append(currentPlayers, newPlayerRiotID)), ","))

\* strings.TrimSpace for the spaces of a message
RECURSIVE TrimSpace(_)
TrimSpace(s) ==
    IF Len(s) > 0 /\ s[1] = " " THEN TrimSpace(Tail(s))
    ELSE IF Len(s) > 0 /\ s[Len(s)] = " " THEN TrimSpace(SubSeq(s, 1, Len(s) - 1))
    ELSE s

\* strings.TrimPrefix
TrimPrefix(s, p) == IF HasPrefix(s, p) THEN SubSeq(s, Len(p) + 1, Len(s)) ELSE s

\* a check of the number of parts only
ValidRiotIDTwoParts(id) == Len(Split(id, "#")) = 2

\* the check of !add and !daystats on an identity: two parts, neither empty
ValidRiotID(id) ==
    LET parts == Split(id, "#")
    IN  Len(parts) = 2 /\ parts[1] # <<>> /\ parts[2] # <<>>

\* the check of the !ranking and !rank loops: two parts
TwoParts(id) == Len(Split(id, "#")) = 2

(***************************************************************************)
(* The command handlers: messageCreate and handleDayStatsCommand           *)
(***************************************************************************)
\* the prefix "!rank" tested before the exact "!ranking"
DispatchPrefixFirst(author, content) ==
    IF author = BotID THEN "own"
    ELSE IF HasPrefix(content, <<"!", "r", "a", "n", "k">>) THEN "rank"
    ELSE IF content = <<"!", "r", "a", "n", "k", "i", "n", "g">> THEN "ranking"
    ELSE IF HasPrefix(content, <<"!", "a", "d", "d", " ">>) THEN "add"
    ELSE IF HasPrefix(content, <<"!", "d", "a", "y", "s", "t", "a", "t", "s", " ">>) THEN "daystats"
    ELSE IF content = <<"!", "h", "e", "l", "p">> THEN "help"
    ELSE "none"

\* the branch of messageCreate's if/else chain a message takes
Dispatch(author, content) ==
    IF author = BotID THEN "own"
    ELSE IF content = <<"!", "r", "a", "n", "k", "i", "n", "g">> THEN "ranking"
    ELSE IF HasPrefix(content, <<"!", "r", "a", "n", "k">>) THEN "rank"
    ELSE IF HasPrefix(content, <<"!", "a", "d", "d", " ">>) THEN "add"
    ELSE IF HasPrefix(content, <<"!", "d", "a", "y", "s", "t", "a", "t", "s", " ">>) THEN "daystats"
    ELSE IF content = <<"!", "h", "e", "l", "p">> THEN "help"
    ELSE "none"

\* a remote call as the history records it
Call(api, idx, id, ok) ==
    [api |-> api, idx |-> idx, id |-> id, ok |-> ok, delayed |-> delayed, resp |-> <<>>]

\* a match-detail call with the match it answered, <<>> when it failed
MatchCall(idx, id, ok, resp) == [Call("match", idx, id, ok) EXCEPT !.resp = resp]

Send(text, ok) == [op |-> "send", text |-> text, ok |-> ok]

Edit(text, ok) == [op |-> "edit", text |-> text, ok |-> ok]

\* completion with the fallback: edit the placeholder, send when the edit fails
\* or when there is no placeholder
CompleteWithFallback(posted, text, editOk, sendOk) ==
    IF posted
    THEN IF editOk THEN <<Edit(text, TRUE)>> ELSE <<Edit(text, FALSE), Send(text, sendOk)>>
    ELSE <<Send(text, sendOk)>>

\* completion without it: the edit's error is dropped
CompleteNoFallback(posted, text, editOk, sendOk) ==
    IF posted THEN <<Edit(text, editOk)>> ELSE <<Send(text, sendOk)>>

\* a failure ends the loop: the index moves past the last element
ContinueAbort(k, n) == n + 1

\* a failure tries the same element again
ContinueRetry(k, n) == k

\* the loop index after a "continue" on element k of n: the next element

ContinueAt(k, n) == k + 1

\* the handler's locals when a message arrives
ResetLocals ==
    /\ i' = 1
    /\ playerRanks' = <<>>
    /\ rankedMessages' = <<>>
    /\ rankInfos' = <<>>
    /\ matchIDs' = <<>>
    /\ wins' = 0
    /\ losses' = 0
    /\ calls' = <<>>
    /\ delayed' = FALSE
    /\ appended' = <<>>
    /\ fromEntry' = <<>>

Arrive(author, content) ==
    /\ msg' = [author |-> author, content |-> content]
    /\ UNCHANGED <<lolPlayersEnv, envFile, pureVars, adds>>

\* a message of the bot itself, or one no branch takes: nothing happens
ReceiveIgnored ==
    /\ pc = "idle"
    /\ \E author \in {BotID, UserID}, content \in Contents :
            /\ Dispatch(author, content) \in {"own", "none"}
            /\ Arrive(author, content)
            /\ ResetLocals
            /\ summonerNames' = <<>>
            /\ riotID' = <<>>
            /\ window' = [start |-> 0, end |-> 0]
            /\ processingMsg' = FALSE
            /\ chat' = <<>>
            /\ pc' = "done"

ReceiveHelp ==
    /\ pc = "idle"
    /\ \E content \in Contents, ok \in BOOLEAN :
            /\ Dispatch(UserID, content) = "help"
            /\ Arrive(UserID, content)
            /\ ResetLocals
            /\ summonerNames' = <<>>
            /\ riotID' = <<>>
            /\ window' = [start |-> 0, end |-> 0]
            /\ processingMsg' = FALSE
            /\ chat' = <<Send(Text("help", <<>>), ok)>>
            /\ pc' = "done"

\* !ranking: the empty roster is answered at once; otherwise the placeholder
\* is posted and the loop over the roster begins
ReceiveRanking ==
    /\ pc = "idle"
    /\ \E content \in Contents, ok \in BOOLEAN :
            /\ Dispatch(UserID, content) = "ranking"
            /\ Arrive(UserID, content)
            /\ ResetLocals
            /\ summonerNames' = <<>>
            /\ riotID' = <<>>
            /\ window' = [start |-> 0, end |-> 0]
            /\ IF Len(lolPlayersEnv) = 0
               THEN /\ chat' = <<Send(Text("no-players-configured", <<>>), ok)>>
                    /\ processingMsg' = FALSE
                    /\ pc' = "done"
               ELSE /\ chat' = <<Send(Text("processing", <<>>), ok)>>
                    /\ processingMsg' = ok
                    /\ pc' = "ranking-loop"

\* the top of the loop: the delay, then the split of the identity
RankingNext ==
    /\ pc = "ranking-loop"
    /\ IF i > Len(lolPlayersEnv)
       THEN /\ pc' = "ranking-finish"
            /\ UNCHANGED <<i, delayed>>
       ELSE /\ delayed' = TRUE
            /\ IF ~TwoParts(lolPlayersEnv[i])
               THEN /\ i' = ContinueAt(i, Len(lolPlayersEnv))
                    /\ pc' = "ranking-loop"
               ELSE /\ i' = i
                    /\ pc' = "ranking-account"
    /\ UNCHANGED <<lolPlayersEnv, envFile, msg, summonerNames, playerRanks, rankedMessages, rankInfos,
                   processingMsg, riotID, window, matchIDs, wins, losses, chat, calls,
                   appended, fromEntry, pureVars, adds>>

\* one remote call of the !ranking loop for roster member i: on failure the
\* loop continues with the next member
RankingCall(at, api, next) ==
    /\ pc = at
    /\ \E ok \in BOOLEAN :
        /\ calls' = Append(calls, Call(api, i, lolPlayersEnv[i], ok))
        /\ delayed' = FALSE
        /\ IF ok THEN /\ pc' = next
                      /\ i' = i
                 ELSE /\ pc' = "ranking-loop"
                      /\ i' = ContinueAt(i, Len(lolPlayersEnv))
    /\ UNCHANGED <<lolPlayersEnv, envFile, msg, summonerNames, playerRanks, rankedMessages, rankInfos,
                   processingMsg, riotID, window, matchIDs, wins, losses, chat,
                   appended, fromEntry, pureVars, adds>>

RankingAccount == RankingCall("ranking-account", "account", "ranking-sleep-summoner")

RankingSummoner == RankingCall("ranking-summoner", "summoner", "ranking-sleep-league")

\* time.Sleep(apiRequestDelay) before the summoner and the league-entries call
RankingSleep(at, next) ==
    /\ pc = at
    /\ delayed' = TRUE
    /\ pc' = next
    /\ UNCHANGED <<lolPlayersEnv, envFile, msg, summonerNames, i, playerRanks, rankedMessages, rankInfos,
                   processingMsg, riotID, window, matchIDs, wins, losses, chat, calls,
                   appended, fromEntry, pureVars, adds>>

RankingSleepSummoner == RankingSleep("ranking-sleep-summoner", "ranking-summoner")

RankingSleepLeague == RankingSleep("ranking-sleep-league", "ranking-league")

\* the league-entries call and, when it succeeds, the result appended
RankingLeague ==
    /\ pc = "ranking-league"
    /\ \/ /\ calls' = Append(calls, Call("league", i, lolPlayersEnv[i], FALSE))
          /\ i' = ContinueAt(i, Len(lolPlayersEnv))
          /\ UNCHANGED <<playerRanks, fromEntry>>
       \/ \E leagueEntries \in LeagueResponses :
          /\ calls' = Append(calls, Call("league", i, lolPlayersEnv[i], TRUE))
          /\ playerRanks' = AppendRank(playerRanks, lolPlayersEnv[i], leagueEntries)
          /\ fromEntry' = Append(fromEntry, HasSolo(leagueEntries))
          /\ i' = i + 1
    /\ delayed' = FALSE
    /\ pc' = "ranking-loop"
    /\ UNCHANGED <<lolPlayersEnv, envFile, msg, summonerNames, rankedMessages, rankInfos,
                   processingMsg, riotID, window, matchIDs, wins, losses, chat,
                   appended, pureVars, adds>>

\* a test that takes the empty collection for a list
HasResultsAlways(ranks) == TRUE

\* len(playerRanks) > 0
HasResults(ranks) == Len(ranks) > 0

\* after the loop: the sort, the rendering and the completion message
RankingFinish ==
    /\ pc = "ranking-finish"
    /\ appended' = playerRanks
    /\ playerRanks' = SliceStable(playerRanks)
    /\ rankedMessages' = <<"title">> \o RenderLines(playerRanks')
    /\ \E editOk \in BOOLEAN, sendOk \in BOOLEAN :
        LET finalMessage == IF HasResults(playerRanks)
                            THEN Text("ranking", rankedMessages')
                            ELSE Text("no-data", <<>>)
        IN  chat' = chat \o CompleteWithFallback(processingMsg, finalMessage, editOk, sendOk)
    /\ pc' = "done"
    /\ UNCHANGED <<lolPlayersEnv, envFile, msg, summonerNames, i, rankInfos, processingMsg, riotID,
                   window, matchIDs, wins, losses, calls, delayed, fromEntry,
                   pureVars, adds>>

\* the command word taken as the first player
SummonerNamesWithCommand(content) == Split(content, " ")

\* the arguments of a !rank message: args[1:]
SummonerNames(content) == Tail(Split(content, " "))

RankLine(id, kind, entry) == [id |-> id, kind |-> kind, entry |-> entry]

ReceiveRank ==
    /\ pc = "idle"
    /\ \E content \in Contents, ok \in BOOLEAN :
            /\ Dispatch(UserID, content) = "rank"
            /\ Arrive(UserID, content)
            /\ ResetLocals
            /\ summonerNames' = SummonerNames(content)
            /\ riotID' = <<>>
            /\ window' = [start |-> 0, end |-> 0]
            /\ processingMsg' = FALSE
            /\ IF Len(Split(content, " ")) < 2
               THEN /\ chat' = <<Send(Text("rank-usage", <<>>), ok)>>
                    /\ pc' = "done"
               ELSE /\ chat' = <<>>
                    /\ pc' = "rank-loop"

\* the top of the !rank loop: the delay, then the split of the argument
RankNext ==
    /\ pc = "rank-loop"
    /\ LET names == summonerNames
       IN  IF i > Len(names)
           THEN /\ pc' = "rank-finish"
                /\ UNCHANGED <<i, delayed, rankInfos>>
           ELSE /\ delayed' = TRUE
                /\ IF ~TwoParts(names[i])
                   THEN /\ rankInfos' = Append(rankInfos, RankLine(names[i], "bad-format", <<>>))
                        /\ i' = ContinueAt(i, Len(names))
                        /\ pc' = "rank-loop"
                   ELSE /\ UNCHANGED <<i, rankInfos>>
                        /\ pc' = "rank-account"
    /\ UNCHANGED <<lolPlayersEnv, envFile, msg, summonerNames, playerRanks, rankedMessages,
                   processingMsg, riotID, window, matchIDs, wins, losses, chat, calls,
                   appended, fromEntry, pureVars, adds>>

\* one remote call of the !rank loop for argument i: a failure becomes that
\* argument's line and the loop continues
RankCall(at, api, next, errorKind) ==
    /\ pc = at
    /\ LET names == summonerNames
       IN  \E ok \in BOOLEAN :
            /\ calls' = Append(calls, Call(api, i, names[i], ok))
            /\ delayed' = FALSE
            /\ IF ok THEN /\ pc' = next
                          /\ UNCHANGED <<i, rankInfos>>
                     ELSE /\ pc' = "rank-loop"
                          /\ rankInfos' = Append(rankInfos, RankLine(names[i], errorKind, <<>>))
                          /\ i' = ContinueAt(i, Len(names))
    /\ UNCHANGED <<lolPlayersEnv, envFile, msg, summonerNames, playerRanks, rankedMessages,
                   processingMsg, riotID, window, matchIDs, wins, losses, chat,
                   appended, fromEntry, pureVars, adds>>

RankAccount == RankCall("rank-account", "account", "rank-sleep-summoner", "account-error")

RankSummoner == RankCall("rank-summoner", "summoner", "rank-sleep-league", "summoner-error")

RankSleep(at, next) ==
    /\ pc = at
    /\ delayed' = TRUE
    /\ pc' = next
    /\ UNCHANGED <<lolPlayersEnv, envFile, msg, summonerNames, i, playerRanks, rankedMessages, rankInfos,
                   processingMsg, riotID, window, matchIDs, wins, losses, chat, calls,
                   appended, fromEntry, pureVars, adds>>

RankSleepSummoner == RankSleep("rank-sleep-summoner", "rank-summoner")

RankSleepLeague == RankSleep("rank-sleep-league", "rank-league")

RankLeague ==
    /\ pc = "rank-league"
    /\ LET names == summonerNames
       IN  \/ /\ calls' = Append(calls, Call("league", i, names[i], FALSE))
              /\ rankInfos' = Append(rankInfos, RankLine(names[i], "league-error", <<>>))
           \/ \E leagueEntries \in RankLeagueResponses :
              /\ calls' = Append(calls, [Call("league", i, names[i], TRUE) EXCEPT !.resp = leagueEntries])
              /\ rankInfos' = Append(rankInfos,
                    IF HasSolo(leagueEntries)
                    THEN RankLine(names[i], "solo", FirstSolo(leagueEntries))
                    ELSE RankLine(names[i], "no-solo", <<>>))
    /\ i' = i + 1
    /\ delayed' = FALSE
    /\ pc' = "rank-loop"
    /\ UNCHANGED <<lolPlayersEnv, envFile, msg, summonerNames, playerRanks, rankedMessages,
                   processingMsg, riotID, window, matchIDs, wins, losses, chat,
                   appended, fromEntry, pureVars, adds>>

\* the reply: the lines joined
RankFinish ==
    /\ pc = "rank-finish"
    /\ \E ok \in BOOLEAN : chat' = Append(chat, Send(Text("rank", rankInfos), ok))
    /\ pc' = "done"
    /\ UNCHANGED <<lolPlayersEnv, envFile, msg, summonerNames, i, playerRanks, rankedMessages, rankInfos,
                   processingMsg, riotID, window, matchIDs, wins, losses,
                   historyVars, pureVars, adds>>

\* !add: the validation and the duplicate check, before any remote call
ReceiveAdd ==
    /\ pc = "idle"
    /\ \E content \in Contents, ok \in BOOLEAN :
            /\ Dispatch(UserID, content) = "add"
            /\ Arrive(UserID, content)
            /\ ResetLocals
            /\ summonerNames' = <<>>
            /\ window' = [start |-> 0, end |-> 0]
            /\ processingMsg' = FALSE
            /\ LET addSummonerRiotID == TrimSpace(TrimPrefix(content, <<"!", "a", "d", "d", " ">>))
               IN  /\ riotID' = addSummonerRiotID
                   /\ IF addSummonerRiotID = <<>>
                      THEN /\ chat' = <<Send(Text("add-missing", <<>>), ok)>>
                           /\ pc' = "done"
                      ELSE IF ~ValidRiotID(addSummonerRiotID)
                      THEN /\ chat' = <<Send(Text("add-bad-format", <<>>), ok)>>
                           /\ pc' = "done"
                      ELSE IF \E k \in 1..Len(lolPlayersEnv) : lolPlayersEnv[k] = addSummonerRiotID
                      THEN /\ chat' = <<Send(Text("add-duplicate", addSummonerRiotID), ok)>>
                           /\ pc' = "done"
                      ELSE /\ chat' = <<>>
                           /\ pc' = "add-account"

\* the account call of !add: no delay precedes it
AddAccount ==
    /\ pc = "add-account"
    /\ \E ok \in BOOLEAN, sent \in BOOLEAN :
        /\ calls' = Append(calls, Call("account", 1, riotID, ok))
        /\ IF ok THEN /\ pc' = "add-file"
                      /\ chat' = chat
                 ELSE /\ pc' = "done"
                      /\ chat' = Append(chat, Send(Text("add-unverified", riotID), sent))
    /\ delayed' = FALSE
    /\ UNCHANGED <<lolPlayersEnv, envFile, msg, summonerNames, i, playerRanks, rankedMessages, rankInfos,
                   processingMsg, riotID, window, matchIDs, wins, losses,
                   appended, fromEntry, pureVars, adds>>

\* the in-memory roster updated whether or not the file was
AddFileRosterFirst ==
    /\ pc = "add-file"
    /\ \E ioOk \in BOOLEAN, sent \in BOOLEAN :
        /\ lolPlayersEnv' = Append(lolPlayersEnv, riotID)
        /\ IF ioOk
           THEN /\ envFile' = addPlayerToEnvFile(envFile, riotID)
                /\ chat' = Append(chat, Send(Text("add-done", riotID), sent))
           ELSE /\ chat' = Append(chat, Send(Text("add-failed", riotID), sent))
                /\ UNCHANGED envFile
    /\ pc' = "done"
    /\ UNCHANGED <<msg, summonerNames, i, playerRanks, rankedMessages, rankInfos,
                   processingMsg, riotID, window, matchIDs, wins, losses,
                   historyVars, pureVars, adds>>

\* addPlayerToEnvFile, then the in-memory roster; a read or write error of the
\* file is reported and the roster is left as it is
AddFile ==
    /\ pc = "add-file"
    /\ \E ioOk \in BOOLEAN, sent \in BOOLEAN :
        IF ioOk
        THEN /\ envFile' = addPlayerToEnvFile(envFile, riotID)
             /\ lolPlayersEnv' = Append(lolPlayersEnv, riotID)
             /\ chat' = Append(chat, Send(Text("add-done", riotID), sent))
        ELSE /\ chat' = Append(chat, Send(Text("add-failed", riotID), sent))
             /\ UNCHANGED <<lolPlayersEnv, envFile>>
    /\ pc' = "done"
    /\ UNCHANGED <<msg, summonerNames, i, playerRanks, rankedMessages, rankInfos,
                   processingMsg, riotID, window, matchIDs, wins, losses,
                   historyVars, pureVars, adds>>

\* !daystats: the validation and the window, then the placeholder
ReceiveDayStats ==
    /\ pc = "idle"
    /\ \E content \in Contents, ok \in BOOLEAN, nowT \in CommandClocks :
            /\ Dispatch(UserID, content) = "daystats"
            /\ Arrive(UserID, content)
            /\ ResetLocals
            /\ summonerNames' = <<>>
            /\ LET args    == Split(content, " ")
                   id      == IF Len(args) < 2 THEN <<>> ELSE args[2]
                   dateStr == IF Len(args) > 2 THEN args[3] ELSE <<>>
                   w       == DayWindow(dateStr, nowT)
               IN  /\ riotID' = id
                   /\ IF Len(args) < 2
                      THEN /\ chat' = <<Send(Text("daystats-usage", <<>>), ok)>>
                           /\ processingMsg' = FALSE
                           /\ window' = [start |-> 0, end |-> 0]
                           /\ pc' = "done"
                      ELSE IF ~ValidRiotID(id)
                      THEN /\ chat' = <<Send(Text("daystats-bad-format", id), ok)>>
                           /\ processingMsg' = FALSE
                           /\ window' = [start |-> 0, end |-> 0]
                           /\ pc' = "done"
                      ELSE IF w.err
                      THEN /\ chat' = <<Send(Text("daystats-bad-date", dateStr), ok)>>
                           /\ processingMsg' = FALSE
                           /\ window' = [start |-> 0, end |-> 0]
                           /\ pc' = "done"
                      ELSE /\ chat' = <<Send(Text("processing", <<>>), ok)>>
                           /\ processingMsg' = ok
                           /\ window' = [start |-> w.start, end |-> w.end]
                           /\ pc' = "daystats-account"

\* the account call of !daystats: no delay precedes it; its failure is
\* reported by an edit whose own failure is dropped
DayStatsAccount ==
    /\ pc = "daystats-account"
    /\ \E ok \in BOOLEAN, editOk \in BOOLEAN, sendOk \in BOOLEAN :
        /\ calls' = Append(calls, Call("account", 1, riotID, ok))
        /\ IF ok THEN /\ pc' = "daystats-match-ids"
                      /\ chat' = chat
                 ELSE /\ pc' = "done"
                      /\ chat' = chat \o CompleteNoFallback(processingMsg,
                                    Text("daystats-account-error", riotID), editOk, sendOk)
    /\ delayed' = FALSE
    /\ UNCHANGED <<lolPlayersEnv, envFile, msg, summonerNames, i, playerRanks, rankedMessages, rankInfos,
                   processingMsg, riotID, window, matchIDs, wins, losses,
                   appended, fromEntry, pureVars, adds>>

\* a test that lets the empty list into the loop
NoMatchesNever(ids) == FALSE

\* len(matchIDs) == 0
NoMatches(ids) == Len(ids) = 0

\* the match-id query: no delay precedes it either; no id ends the command
DayStatsMatchIDs ==
    /\ pc = "daystats-match-ids"
    /\ \E editOk \in BOOLEAN, sendOk \in BOOLEAN :
        \/ /\ calls' = Append(calls, Call("match-ids", 1, riotID, FALSE))
           /\ chat' = chat \o CompleteNoFallback(processingMsg,
                         Text("daystats-history-error", riotID), editOk, sendOk)
           /\ pc' = "done"
           /\ UNCHANGED matchIDs
        \/ \E ids \in MatchIdLists :
           /\ calls' = Append(calls, Call("match-ids", 1, riotID, TRUE))
           /\ matchIDs' = ids
           /\ IF NoMatches(ids)
              THEN /\ chat' = chat \o CompleteNoFallback(processingMsg,
                                 Text("daystats-no-games", riotID), editOk, sendOk)
                   /\ pc' = "done"
              ELSE /\ chat' = chat
                   /\ pc' = "daystats-loop"
    /\ delayed' = FALSE
    /\ UNCHANGED <<lolPlayersEnv, envFile, msg, summonerNames, i, playerRanks, rankedMessages, rankInfos,
                   processingMsg, riotID, window, wins, losses,
                   appended, fromEntry, pureVars, adds>>

\* the top of the loop over the match ids: the delay
DayStatsNext ==
    /\ pc = "daystats-loop"
    /\ IF i > Len(matchIDs)
       THEN /\ pc' = "daystats-finish"
            /\ UNCHANGED delayed
       ELSE /\ delayed' = TRUE
            /\ pc' = "daystats-match"
    /\ UNCHANGED <<lolPlayersEnv, envFile, msg, summonerNames, i, playerRanks, rankedMessages, rankInfos,
                   processingMsg, riotID, window, matchIDs, wins, losses, chat, calls,
                   appended, fromEntry, pureVars, adds>>

\* matchDetails.Info.GameCreation / 1000 on <<seconds, milliseconds>>
DivThousand(gameCreation) == gameCreation[1] + gameCreation[2] \div 1000

\* a tally that reads the first participant, whoever it is
TallyFirstParticipant(matchDetails, startTimeUnix, endTimeUnix, puuid) ==
    IF /\ InWindow(DivThousand(matchDetails.GameCreation), startTimeUnix, endTimeUnix)
       /\ matchDetails.QueueID = rankedSoloQueueID
       /\ Len(matchDetails.Participants) > 0
    THEN IF matchDetails.Participants[1].Win THEN "win" ELSE "loss"
    ELSE "none"

\* what a fetched match adds to the tally: "win", "loss" or "none"
Tally(matchDetails, startTimeUnix, endTimeUnix, puuid) ==
    LET matchTimeUnix == DivThousand(matchDetails.GameCreation)
        ps            == matchDetails.Participants
    IN  IF /\ InWindow(matchTimeUnix, startTimeUnix, endTimeUnix)
           /\ matchDetails.QueueID = rankedSoloQueueID
           /\ \E k \in 1..Len(ps) : ps[k].PUUID = puuid
        THEN LET p == ps[CHOOSE k \in 1..Len(ps) :
                            /\ ps[k].PUUID = puuid
                            /\ \A j \in 1..(k - 1) : ps[j].PUUID # puuid]
             IN  IF p.Win THEN "win" ELSE "loss"
        ELSE "none"

\* the match-detail call for match id i and its tally; a failed fetch skips
\* the match
DayStatsMatch ==
    /\ pc = "daystats-match"
    /\ \/ /\ calls' = Append(calls, MatchCall(i, matchIDs[i], FALSE, <<>>))
          /\ i' = ContinueAt(i, Len(matchIDs))
          /\ UNCHANGED <<wins, losses>>
       \/ \E matchDetails \in MatchResponses(window.start, window.end) :
          LET t == Tally(matchDetails, window.start, window.end, MyPUUID)
          IN  /\ calls' = Append(calls, MatchCall(i, matchIDs[i], TRUE, matchDetails))
              /\ wins' = IF t = "win" THEN wins + 1 ELSE wins
              /\ losses' = IF t = "loss" THEN losses + 1 ELSE losses
              /\ i' = i + 1
    /\ delayed' = FALSE
    /\ pc' = "daystats-loop"
    /\ UNCHANGED <<lolPlayersEnv, envFile, msg, summonerNames, playerRanks, rankedMessages, rankInfos,
                   processingMsg, riotID, window, matchIDs, chat,
                   appended, fromEntry, pureVars, adds>>

\* the result message: edited in place, sent when the edit fails
DayStatsFinish ==
    /\ pc = "daystats-finish"
    /\ \E editOk \in BOOLEAN, sendOk \in BOOLEAN :
        chat' = chat \o CompleteWithFallback(processingMsg,
                    Text("daystats-result", <<wins, losses>>), editOk, sendOk)
    /\ pc' = "done"
    /\ UNCHANGED <<lolPlayersEnv, envFile, msg, summonerNames, i, playerRanks, rankedMessages, rankInfos,
                   processingMsg, riotID, window, matchIDs, wins, losses,
                   historyVars, pureVars, adds>>

\* the handler returns: its locals are gone
Return ==
    /\ pc = "done"
    /\ pc' = "idle"
    /\ msg' = [author |-> UserID, content |-> <<>>]
    /\ ResetLocals
    /\ summonerNames' = <<>>
    /\ processingMsg' = FALSE
    /\ riotID' = <<>>
    /\ window' = [start |-> 0, end |-> 0]
    /\ chat' = <<>>
    /\ UNCHANGED <<lolPlayersEnv, envFile, pureVars, adds>>

(***************************************************************************)
(* Specifications                                                          *)
(***************************************************************************)
\* the !add invocations that may overlap
Procs == 1..MaxOverlap

\* an invocation that has not begun
NoAdd == [pc |-> "idle", riotID |-> <<>>, value |-> <<>>,
          file |-> [exists |-> FALSE, lines |-> <<>>], roster |-> <<>>]

\* the state between messages, before any was handled
IdleInit ==
    /\ pc = "idle"
    /\ msg = [author |-> UserID, content |-> <<>>]
    /\ i = 1
    /\ summonerNames = <<>>
    /\ playerRanks = <<>>
    /\ rankedMessages = <<>>
    /\ rankInfos = <<>>
    /\ processingMsg = FALSE
    /\ riotID = <<>>
    /\ window = [start |-> 0, end |-> 0]
    /\ matchIDs = <<>>
    /\ wins = 0
    /\ losses = 0
    /\ chat = <<>>
    /\ calls = <<>>
    /\ delayed = FALSE
    /\ appended = <<>>
    /\ fromEntry = <<>>
    /\ adds = [p \in Procs |-> NoAdd]

PureIdle ==
    /\ rvIn = <<>>
    /\ rvOut = <<>>
    /\ dwIn = <<>>
    /\ dwOut = <<>>

\* after init(): the roster read from LOL_PLAYERS
Init ==
    /\ lolPlayersEnv \in SmallRosters
    /\ envFile \in EnvFileOf(lolPlayersEnv)
    /\ IdleInit
    /\ PureIdle

Next ==
    \/ ReceiveIgnored
    \/ ReceiveHelp
    \/ ReceiveRanking
    \/ RankingNext
    \/ RankingAccount
    \/ RankingSleepSummoner
    \/ RankingSummoner
    \/ RankingSleepLeague
    \/ RankingLeague
    \/ RankingFinish
    \/ ReceiveRank
    \/ RankNext
    \/ RankAccount
    \/ RankSleepSummoner
    \/ RankSummoner
    \/ RankSleepLeague
    \/ RankLeague
    \/ RankFinish
    \/ ReceiveAdd
    \/ AddAccount
    \/ AddFile
    \/ ReceiveDayStats
    \/ DayStatsAccount
    \/ DayStatsMatchIDs
    \/ DayStatsNext
    \/ DayStatsMatch
    \/ DayStatsFinish
    \/ Return

Spec == Init /\ [][Next]_vars

\* the leaderboard alone, over every roster up to MaxRoster
RankingInit ==
    /\ lolPlayersEnv \in Rosters
    /\ envFile = [exists |-> FALSE, lines |-> <<>>]
    /\ IdleInit
    /\ PureIdle

RankingStep ==
    \/ ReceiveRanking
    \/ RankingNext
    \/ RankingAccount
    \/ RankingSleepSummoner
    \/ RankingSummoner
    \/ RankingSleepLeague
    \/ RankingLeague
    \/ RankingFinish
    \/ Return

SpecRanking == RankingInit /\ [][RankingStep]_vars

\* !daystats alone
DayStatsInit ==
    /\ lolPlayersEnv = <<>>
    /\ envFile = [exists |-> FALSE, lines |-> <<>>]
    /\ IdleInit
    /\ PureIdle

DayStatsStep ==
    \/ ReceiveDayStats
    \/ DayStatsAccount
    \/ DayStatsMatchIDs
    \/ DayStatsNext
    \/ DayStatsMatch
    \/ DayStatsFinish
    \/ Return

SpecDayStats == DayStatsInit /\ [][DayStatsStep]_vars

\* !add alone, over every roster file
RosterInit ==
    /\ lolPlayersEnv \in SmallRosters
    /\ envFile \in EnvFiles
    /\ IdleInit
    /\ PureIdle

RosterStep ==
    \/ ReceiveAdd
    \/ AddAccount
    \/ AddFile
    \/ Return

SpecRoster == RosterInit /\ [][RosterStep]_vars

\* the roster init loads when LOL_PLAYERS comes from the file
LoadedRoster(file) == IF file.exists THEN CurrentPlayers(file.lines) ELSE <<>>

\* the bot started on the file: the roster in memory is the file's list
SyncedInit ==
    /\ envFile \in EnvFiles
    /\ lolPlayersEnv = LoadedRoster(envFile)
    /\ IdleInit
    /\ PureIdle

SpecSynced == SyncedInit /\ [][RosterStep]_vars

\* !add invocations running at the same time: the chat library calls
\* messageCreate in a goroutine of its own for every message, and nothing in
\* the handler or in the file functions excludes another invocation. Each
\* action is one read or one write of the roster in memory or of the file.

\* the validation passed; the roster in memory is searched for the identity
AddCheck(p) ==
    /\ adds[p].pc = "idle"
    /\ \E id \in {<<"a", "#", "b">>, <<"b", "#", "a">>} :
         adds' = [adds EXCEPT ![p].riotID = id,
                              ![p].pc = IF \E k \in 1..Len(lolPlayersEnv) : lolPlayersEnv[k] = id
                                        THEN "duplicate" ELSE "account"]
    /\ UNCHANGED <<lolPlayersEnv, envFile, handlerVars, chat, historyVars, pureVars>>

\* the account call
AddVerify(p) ==
    /\ adds[p].pc = "account"
    /\ \E ok \in BOOLEAN :
         adds' = [adds EXCEPT ![p].pc = IF ok THEN "read" ELSE "unverified"]
    /\ UNCHANGED <<lolPlayersEnv, envFile, handlerVars, chat, historyVars, pureVars>>

\* addPlayerToEnvFile reads the file and computes the list to write, or
\* returns without error when the list holds the identity
AddReadFile(p) ==
    /\ adds[p].pc = "read"
    /\ LET id == adds[p].riotID
           currentPlayers == IF envFile.exists THEN CurrentPlayers(envFile.lines) ELSE <<>>
       IN  \/ adds' = [adds EXCEPT ![p].pc = "failed"]
           \/ adds' = IF ~envFile.exists
                      THEN [adds EXCEPT ![p].value = id, ![p].pc = "reread"]
                      ELSE IF \E k \in 1..Len(currentPlayers) : currentPlayers[k] = id
                      THEN [adds EXCEPT ![p].pc = "load"]
                      ELSE [adds EXCEPT ![p].value = Join(Cleaned(Append(currentPlayers, id)), ","),
                                        ![p].pc = "reread"]
    /\ UNCHANGED <<lolPlayersEnv, envFile, handlerVars, chat, historyVars, pureVars>>

\* updateEnvFile reads the file
AddRereadFile(p) ==
    /\ adds[p].pc = "reread"
    /\ \/ adds' = [adds EXCEPT ![p].pc = "failed"]
       \/ adds' = [adds EXCEPT ![p].file = envFile, ![p].pc = "write"]
    /\ UNCHANGED <<lolPlayersEnv, envFile, handlerVars, chat, historyVars, pureVars>>

\* updateEnvFile writes the file it computed from what it read
AddWriteFile(p) ==
    /\ adds[p].pc = "write"
    /\ \/ /\ adds' = [adds EXCEPT ![p].pc = "failed"]
          /\ UNCHANGED envFile
       \/ /\ envFile' = updateEnvFile(adds[p].file, LOL_PLAYERS, adds[p].value)
          /\ adds' = [adds EXCEPT ![p].pc = "load"]
    /\ UNCHANGED <<lolPlayersEnv, handlerVars, chat, historyVars, pureVars>>

\* append reads the roster in memory
AddLoadRoster(p) ==
    /\ adds[p].pc = "load"
    /\ adds' = [adds EXCEPT ![p].roster = lolPlayersEnv, ![p].pc = "store"]
    /\ UNCHANGED <<lolPlayersEnv, envFile, handlerVars, chat, historyVars, pureVars>>

\* the roster in memory is assigned the appended list; the success message
\* follows
AddStoreRoster(p) ==
    /\ adds[p].pc = "store"
    /\ lolPlayersEnv' = Append(adds[p].roster, adds[p].riotID)
    /\ adds' = [adds EXCEPT ![p].pc = "replied"]
    /\ UNCHANGED <<envFile, handlerVars, chat, historyVars, pureVars>>

OverlapStep ==
    \E p \in Procs :
        \/ AddCheck(p)
        \/ AddVerify(p)
        \/ AddReadFile(p)
        \/ AddRereadFile(p)
        \/ AddWriteFile(p)
        \/ AddLoadRoster(p)
        \/ AddStoreRoster(p)

\* the bot started on the file, its list without duplicate
OverlapInit ==
    /\ SyncedInit
    /\ \A k, l \in 1..Len(lolPlayersEnv) : k # l => lolPlayersEnv[k] # lolPlayersEnv[l]

SpecOverlap == OverlapInit /\ [][OverlapStep]_vars

\* every command over an empty roster and over a roster of one member
DispatchInit ==
    /\ lolPlayersEnv \in {<<>>, <<<<"a", "#", "b">>>>}
    /\ envFile = [exists |-> FALSE, lines |-> <<>>]
    /\ IdleInit
    /\ PureIdle

SpecDispatch == DispatchInit /\ [][Next]_vars

\* rosters of well-formed and malformed members, one shorter than MaxRoster
FetchRosters == UNION {[1..n -> {<<"a", "#", "b">>, <<"a">>}] : n \in 0..(MaxRoster - 1)}

FetchInit ==
    /\ lolPlayersEnv \in FetchRosters
    /\ envFile = [exists |-> FALSE, lines |-> <<>>]
    /\ IdleInit
    /\ PureIdle

\* the commands that fetch: !ranking, !rank and !daystats
FetchStep ==
    \/ ReceiveRanking
    \/ RankingNext
    \/ RankingAccount
    \/ RankingSleepSummoner
    \/ RankingSummoner
    \/ RankingSleepLeague
    \/ RankingLeague
    \/ RankingFinish
    \/ ReceiveRank
    \/ RankNext
    \/ RankAccount
    \/ RankSleepSummoner
    \/ RankSummoner
    \/ RankSleepLeague
    \/ RankLeague
    \/ RankFinish
    \/ ReceiveDayStats
    \/ DayStatsAccount
    \/ DayStatsMatchIDs
    \/ DayStatsNext
    \/ DayStatsMatch
    \/ DayStatsFinish
    \/ Return

SpecFetch == FetchInit /\ [][FetchStep]_vars

\* the two commands that validate their arguments: !add and !daystats
ArgsStep ==
    \/ ReceiveAdd
    \/ AddAccount
    \/ AddFile
    \/ ReceiveDayStats
    \/ DayStatsAccount
    \/ DayStatsMatchIDs
    \/ DayStatsNext
    \/ DayStatsMatch
    \/ DayStatsFinish
    \/ Return

SpecArgs == Init /\ [][ArgsStep]_vars

(***************************************************************************)
(* getRankValues on its own: two (tier, rank) label pairs are drawn, then  *)
(* mapped                                                                  *)
(***************************************************************************)
\* the vocabulary, lowest first
TierOrder == <<<<"U", "N", "R", "A", "N", "K", "E", "D">>, <<"I", "R", "O", "N">>, <<"B", "R", "O", "N", "Z", "E">>, <<"S", "I", "L", "V", "E", "R">>, <<"G", "O", "L", "D">>, <<"P", "L", "A", "T", "I", "N", "U", "M">>,
               <<"E", "M", "E", "R", "A", "L", "D">>, <<"D", "I", "A", "M", "O", "N", "D">>, <<"M", "A", "S", "T", "E", "R">>, <<"G", "R", "A", "N", "D", "M", "A", "S", "T", "E", "R">>, <<"C", "H", "A", "L", "L", "E", "N", "G", "E", "R">>>>

DivisionOrder == <<<<>>, <<"I", "V">>, <<"I", "I", "I">>, <<"I", "I">>, <<"I">>>>

Range(s) == {s[k] : k \in 1..Len(s)}

\* labels in upper, lower and capitalised writing, and labels outside the vocabulary
TierLabels ==
    Range(TierOrder) \cup {ToLower(t) : t \in Range(TierOrder)}
    \cup {Capitalize(t) : t \in Range(TierOrder)}
    \cup {<<"W", "O", "O", "D">>, <<"I", "R", "O", "N", " ">>, <<"G", "O", "L", "D", "1">>, <<>>, <<"M", "A", "S", "T", "E", "R", "S">>, <<"u", "n", "r", "a", "n", "k", "d">>}

DivisionLabels ==
    Range(DivisionOrder) \cup {ToLower(d) : d \in Range(DivisionOrder)}
    \cup {<<"I", "v">>, <<"i", "I">>, <<"V">>, <<"I", "I", "I", "I">>, <<"1">>, <<" ">>}

Labels(tier, rank) == [tier |-> tier, rank |-> rank]

RankValuesInit ==
    /\ rvIn \in {<<Labels(t1, r1), Labels(t2, r2)>> :
                    t1 \in TierLabels, r1 \in DivisionLabels,
                    t2 \in Range(TierOrder), r2 \in Range(DivisionOrder)}
    /\ rvOut = <<>>
    /\ dwIn = <<>>
    /\ dwOut = <<>>
    /\ lolPlayersEnv = <<>>
    /\ envFile = [exists |-> FALSE, lines |-> <<>>]
    /\ IdleInit

RankValuesStep ==
    /\ rvOut = <<>>
    /\ rvIn # <<>>
    /\ rvOut' = <<getRankValues(rvIn[1].tier, rvIn[1].rank),
                  getRankValues(rvIn[2].tier, rvIn[2].rank)>>
    /\ UNCHANGED <<lolPlayersEnv, envFile, handlerVars, chat, historyVars,
                   rvIn, dwIn, dwOut, adds>>

SpecRankValues == RankValuesInit /\ [][RankValuesStep]_vars

(***************************************************************************)
(* The day window on its own: a date argument ("" when absent) and a clock *)
(* reading are drawn, then the window is computed                          *)
(***************************************************************************)
DayWindowInit ==
    /\ dwIn \in [dateStr : DateArgs \cup {<<>>}, clock : ClockReadings]
    /\ dwOut = <<>>
    /\ rvIn = <<>>
    /\ rvOut = <<>>
    /\ lolPlayersEnv = <<>>
    /\ envFile = [exists |-> FALSE, lines |-> <<>>]
    /\ IdleInit

DayWindowStep ==
    /\ dwOut = <<>>
    /\ dwIn # <<>>
    /\ dwOut' = <<DayWindow(dwIn.dateStr, Instant(dwIn.clock))>>
    /\ UNCHANGED <<lolPlayersEnv, envFile, handlerVars, chat, historyVars,
                   rvIn, rvOut, dwIn, adds>>

SpecDayWindow == DayWindowInit /\ [][DayWindowStep]_vars

(***************************************************************************)
(* Properties                                                              *)
(***************************************************************************)
\* the command the message being handled runs
Command == Dispatch(msg.author, msg.content)

RankingDone == pc = "done" /\ Command = "ranking" /\ Len(lolPlayersEnv) > 0

\* the numbered lines of the rendered leaderboard: all but the title
NumberedLines == IF Len(rankedMessages) = 0 THEN <<>> ELSE Tail(rankedMessages)

\* the number of '#' of an identity
SepCount(id) == Cardinality({k \in 1..Len(id) : id[k] = "#"})

\* an identity without separator, or with nothing after the separator
Malformed(id) == SepCount(id) = 0 \/ (Len(id) > 0 /\ id[Len(id)] = "#")

\* whether the call of this api for element idx of the loop was issued / succeeded
Issued(api, idx) == \E k \in 1..Len(calls) : calls[k].api = api /\ calls[k].idx = idx

Succeeded(api, idx) ==
    \E k \in 1..Len(calls) : calls[k].api = api /\ calls[k].idx = idx /\ calls[k].ok

\* the sort key of a collected result
Key(pr) == <<pr.TierValue, pr.RankValue, pr.LeaguePoints>>

\* the lexicographic order of the keys
KeyLess(x, y) ==
    \/ x[1] < y[1]
    \/ x[1] = y[1] /\ x[2] < y[2]
    \/ x[1] = y[1] /\ x[2] = y[2] /\ x[3] < y[3]

----------------------------------------------------------------------------
\* C1: in every invocation that contacts the remote service, every remote
\* call is preceded by a delay step since the previous remote call of the
\* invocation (or since its beginning).
C1_DelayBeforeEveryCall == \A k \in 1..Len(calls) : calls[k].delayed

\* C2: in !ranking and !rank, no remote call is ever issued for an identity
\* that has no '#' separator or an empty tag after it.
C2_MalformedNeverCalled ==
    Command \in {"ranking", "rank"} =>
        \A k \in 1..Len(calls) : ~Malformed(calls[k].id)

C4_EveryMemberProcessed ==
    RankingDone =>
        /\ \A k \in 1..Len(lolPlayersEnv) :
            SepCount(lolPlayersEnv[k]) = 1 => Issued("account", k)
        /\ Len(NumberedLines) =
            Cardinality({k \in 1..Len(lolPlayersEnv) : Succeeded("league", k)})
        /\ \A j \in 1..Len(appended) :
            ~fromEntry[j] =>
                \E k \in 1..Len(NumberedLines) :
                    /\ NumberedLines[k].riotID = appended[j].RiotID
                    /\ NumberedLines[k].unranked
        /\ Cardinality({j \in 1..Len(appended) : ~fromEntry[j]})
            = Cardinality({k \in 1..Len(NumberedLines) : NumberedLines[k].unranked})
        /\ ( /\ Len(lolPlayersEnv) = 3
             /\ \A k \in 1..3 : SepCount(lolPlayersEnv[k]) = 1
             /\ Cardinality({k \in 1..Len(calls) : ~calls[k].ok}) = 1
             /\ \E k \in 1..Len(calls) : ~calls[k].ok /\ calls[k].api = "account" )
           => Len(NumberedLines) = 2

\* a roster of 3 whose first member fails the account call: 2 lines
C4_Witness ==
    /\ RankingDone
    /\ Len(lolPlayersEnv) = 3
    /\ Issued("account", 1) /\ ~Succeeded("account", 1)
    /\ Succeeded("league", 2) /\ Succeeded("league", 3)
    /\ Len(NumberedLines) = 2
    /\ \E k \in 1..2 : NumberedLines[k].unranked

\* C5: the key of a player without ranked-solo entry is strictly less than
\* the key of every player with one, and in the sorted results no player
\* without entry stands before a player with one.
C5_UnrankedLast ==
    RankingDone =>
        /\ \A a \in 1..Len(appended), b \in 1..Len(appended) :
            (~fromEntry[a] /\ fromEntry[b]) => KeyLess(Key(appended[a]), Key(appended[b]))
        /\ \A p \in 1..Len(playerRanks), q \in 1..Len(playerRanks) :
            ( /\ p < q
              /\ \E a \in 1..Len(appended) : ~fromEntry[a] /\ appended[a] = playerRanks[p] )
            => \E a \in 1..Len(appended) : ~fromEntry[a] /\ appended[a] = playerRanks[q]

\* an unranked member collected before members with an Iron IV 0LP entry and
\* an entry of unknown labels ends last
C5_Witness ==
    /\ RankingDone
    /\ Len(appended) = 3
    /\ ~fromEntry[1] /\ fromEntry[2] /\ fromEntry[3]
    /\ appended[2].Tier = <<"I", "R", "O", "N">> /\ appended[2].LeaguePoints = 0
    /\ appended[3].Tier = <<"W", "O", "O", "D">>
    /\ playerRanks[3] = appended[1]

\* C6: the results are in descending order of (tier ordinal, division
\* ordinal, points), and the numbered lines show them in that order at
\* positions 1..n.
C6_Descending ==
    RankingDone =>
        /\ \A k \in 1..(Len(playerRanks) - 1) :
            ~KeyLess(Key(playerRanks[k]), Key(playerRanks[k + 1]))
        /\ Len(NumberedLines) = Len(playerRanks)
        /\ \A k \in 1..Len(NumberedLines) :
            /\ NumberedLines[k].pos = k
            /\ NumberedLines[k].riotID = playerRanks[k].RiotID
            /\ ~NumberedLines[k].unranked =>
                NumberedLines[k].lp = playerRanks[k].LeaguePoints

\* Gold II 75LP collected before Gold I 20LP: the division decides, not the points
C6_Witness ==
    /\ RankingDone
    /\ Len(appended) = 2
    /\ Key(appended[1]) = <<4, 3, 75>>
    /\ Key(appended[2]) = <<4, 4, 20>>
    /\ playerRanks = <<appended[2], appended[1]>>
    /\ NumberedLines[1].pos = 1 /\ NumberedLines[2].pos = 2

\* the results with a given key, in the order of the sequence
WithKey(s, key) ==
    LET keep == {k \in 1..Len(s) : Key(s[k]) = key}
        nth(n) == CHOOSE k \in keep : Cardinality({j \in keep : j < k}) = n - 1
    IN  [n \in 1..Cardinality(keep) |-> s[nth(n)]]

\* C7: the sort is stable: the results with one and the same key stand in the
\* output in the order in which they were collected from the roster.
C7_Stable ==
    RankingDone =>
        \A j \in 1..Len(appended) :
            WithKey(playerRanks, Key(appended[j])) = WithKey(appended, Key(appended[j]))

\* two different results with the same key, behind a third with a lower key
C7_Witness ==
    /\ RankingDone
    /\ Len(appended) = 3
    /\ Key(appended[2]) = Key(appended[3])
    /\ appended[2] # appended[3]
    /\ KeyLess(Key(appended[1]), Key(appended[2]))
    /\ playerRanks = <<appended[2], appended[3], appended[1]>>

\* the position of a label in the vocabulary, lowest first
Pos(order, label) == CHOOSE p \in 1..Len(order) : order[p] = label

\* two labels that differ in the case of their letters at most
SameLetters(s, t) == ToLower(s) = ToLower(t)

\* C8: over the vocabulary the tier ordinal grows strictly from UNRANKED to
\* CHALLENGER and the division ordinal is 0, 1, 2, 3, 4 for "", IV, III, II,
\* I; a label written in another case has the ordinal of its upper-case
\* writing; a label outside the vocabulary has ordinal 0.
C8_RankValues ==
    rvOut # <<>> =>
        LET a == rvIn[1]
            b == rvIn[2]
            va == rvOut[1]
            vb == rvOut[2]
        IN  /\ vb[2] = Pos(DivisionOrder, b.rank) - 1
            /\ (a.tier \in Range(TierOrder)) =>
                ((Pos(TierOrder, a.tier) < Pos(TierOrder, b.tier)) <=> (va[1] < vb[1]))
            /\ (a.rank \in Range(DivisionOrder)) =>
                ((Pos(DivisionOrder, a.rank) < Pos(DivisionOrder, b.rank)) <=> (va[2] < vb[2]))
            /\ SameLetters(a.tier, b.tier) => va[1] = vb[1]
            /\ SameLetters(a.rank, b.rank) => va[2] = vb[2]
            /\ (\A t \in Range(TierOrder) : ~SameLetters(a.tier, t)) => va[1] = 0
            /\ (\A d \in Range(DivisionOrder) : ~SameLetters(a.rank, d)) => va[2] = 0

\* "gold" and "iii" in lower case map like GOLD and III; here against PLATINUM IV
C8_Witness ==
    /\ rvOut # <<>>
    /\ rvIn[1] = Labels(<<"g", "o", "l", "d">>, <<"i", "i", "i">>)
    /\ rvIn[2] = Labels(<<"P", "L", "A", "T", "I", "N", "U", "M">>, <<"I", "V">>)
    /\ rvOut[1] = <<4, 2>>
    /\ rvOut[1][1] < rvOut[2][1]
    /\ rvOut[1][2] > rvOut[2][2]

\* the calendar, written out: month lengths, the day before and the day after
MonthLength(y, m) ==
    <<31, IF y % 4 = 0 /\ (y % 100 # 0 \/ y % 400 = 0) THEN 29 ELSE 28,
      31, 30, 31, 30, 31, 31, 30, 31, 30, 31>>[m]

PrevDay(date) ==
    IF date[3] > 1 THEN <<date[1], date[2], date[3] - 1>>
    ELSE IF date[2] > 1 THEN <<date[1], date[2] - 1, MonthLength(date[1], date[2] - 1)>>
    ELSE <<date[1] - 1, 12, 31>>

NextDay(date) ==
    IF date[3] < MonthLength(date[1], date[2]) THEN <<date[1], date[2], date[3] + 1>>
    ELSE IF date[2] < 12 THEN <<date[1], date[2] + 1, 1>>
    ELSE <<date[1] + 1, 1, 1>>

RECURSIVE DaysBeforeYear(_)
DaysBeforeYear(y) ==
    IF y <= 1970 THEN 0
    ELSE DaysBeforeYear(y - 1) + MonthLength(y - 1, 2) + 337

RECURSIVE DaysBeforeMonth(_, _)
DaysBeforeMonth(y, m) ==
    IF m <= 1 THEN 0 ELSE DaysBeforeMonth(y, m - 1) + MonthLength(y, m - 1)

\* the Unix second of a JST date and time of day, counted day by day
LocalUnix(date, time) ==
    (DaysBeforeYear(date[1]) + DaysBeforeMonth(date[1], date[2]) + date[3] - 1) * 86400
    + time[1] * 3600 + time[2] * 60 + time[3] - 9 * 3600

FiveOClock == <<5, 0, 0>>

\* the calendar date a date argument writes, <<>> when it writes none
WrittenDate(str) == (CHOOSE c \in DateCases : c.str = str).date

\* C9: without date argument the window starts at 05:00 of the previous
\* calendar date when the clock reads before 05:00, at 05:00 of the current
\* date otherwise, and start <= now < end.
C9_WindowOfNow ==
    (dwOut # <<>> /\ dwIn.dateStr = <<>>) =>
        LET date == dwIn.clock[1]
            time == dwIn.clock[2]
            nowT == LocalUnix(date, time)
            day  == IF time[1] < 5 THEN PrevDay(date) ELSE date
        IN  /\ ~dwOut[1].err
            /\ dwOut[1].start = LocalUnix(day, FiveOClock)
            /\ dwOut[1].start <= nowT
            /\ nowT < dwOut[1].end

\* 04:30 on 1 March 2024: the window starts on 29 February at 05:00
C9_Witness ==
    /\ dwOut # <<>>
    /\ dwIn.dateStr = <<>>
    /\ dwIn.clock = <<<<2024, 3, 1>>, <<4, 30, 0>>>>
    /\ dwOut[1].start = LocalUnix(<<2024, 2, 29>>, FiveOClock)
    /\ dwOut[1].end = LocalUnix(<<2024, 3, 1>>, FiveOClock)

\* C10: with a valid date argument D the window starts at 05:00 of D and ends
\* 24 hours later, at 05:00 of the day after D, the end not belonging to it.
C10_WindowOfDate ==
    (dwOut # <<>> /\ dwIn.dateStr # <<>> /\ WrittenDate(dwIn.dateStr) # <<>>) =>
        LET date == WrittenDate(dwIn.dateStr)
            w    == dwOut[1]
        IN  /\ ~w.err
            /\ w.start = LocalUnix(date, FiveOClock)
            /\ w.end = w.start + 24 * 3600
            /\ w.end = LocalUnix(NextDay(date), FiveOClock)
            /\ InWindow(w.start, w.start, w.end)
            /\ InWindow(w.end - 1, w.start, w.end)
            /\ ~InWindow(w.end, w.start, w.end)

\* "20240101": from 2024-01-01 05:00 to 2024-01-02 05:00
C10_Witness ==
    /\ dwOut # <<>>
    /\ dwIn.dateStr = <<"2", "0", "2", "4", "0", "1", "0", "1">>
    /\ ~dwOut[1].err
    /\ dwOut[1].start = LocalUnix(<<2024, 1, 1>>, FiveOClock)
    /\ dwOut[1].end = LocalUnix(<<2024, 1, 2>>, FiveOClock)

\* !daystats is past its validation: the window is set
DayStatsRunning == Command = "daystats" /\ window.end > window.start

\* the creation time of a fetched match in whole seconds
CreationSecond(matchDetails) == matchDetails.GameCreation[1]

\* whether the match is of the ranked-solo queue and lists the player
SoloWithPlayer(matchDetails) ==
    /\ matchDetails.QueueID = 420
    /\ \E k \in 1..Len(matchDetails.Participants) :
            matchDetails.Participants[k].PUUID = MyPUUID

\* C11: a fetched match changes the win or loss counter only if its creation
\* second t satisfies start <= t < end; a ranked-solo match of the player
\* created exactly at start is counted, a match created exactly at end is not.
C11_OnlyInsideWindowCounts ==
    [][(pc = "daystats-match" /\ pc' = "daystats-loop" /\ calls'[Len(calls')].ok) =>
          LET matchDetails == calls'[Len(calls')].resp
              t            == CreationSecond(matchDetails)
              counted      == wins' + losses' # wins + losses
          IN  /\ counted => (window.start <= t /\ t < window.end)
              /\ (t = window.start /\ SoloWithPlayer(matchDetails)) => counted
              /\ t = window.end => ~counted
              /\ wins' >= wins /\ losses' >= losses
       ]_vars

\* two matches fetched, one created at start and counted, one created at end
\* and not counted
C11_Witness ==
    /\ DayStatsRunning
    /\ pc = "daystats-finish"
    /\ Len(calls) = 4
    /\ calls[3].ok /\ CreationSecond(calls[3].resp) = window.start
    /\ calls[4].ok /\ CreationSecond(calls[4].resp) = window.end
    /\ SoloWithPlayer(calls[4].resp)
    /\ wins + losses = 1

\* the positions in the call history of the match-detail calls
MatchCalls == {k \in 1..Len(calls) : calls[k].api = "match"}

\* whether the fetched match counts for the player, and with which outcome
Qualifies(matchDetails, won) ==
    /\ window.start <= CreationSecond(matchDetails)
    /\ CreationSecond(matchDetails) < window.end
    /\ matchDetails.QueueID = 420
    /\ \E k \in 1..Len(matchDetails.Participants) :
            /\ matchDetails.Participants[k].PUUID = MyPUUID
            /\ matchDetails.Participants[k].Win = won

\* the match-detail calls that succeeded with a match that counts
Counting(won) == {k \in MatchCalls : calls[k].ok /\ Qualifies(calls[k].resp, won)}

\* C12: the match ids are attempted once each, in order, a failed fetch
\* skipping only its match; wins is the number of fetched matches that pass
\* the window and queue re-check and list the player as winner, losses the
\* same with the player as loser; wins + losses <= the number of ids.
C12_TallyOfFetchedMatches ==
    (DayStatsRunning /\ pc \in {"daystats-loop", "daystats-match", "daystats-finish"}) =>
        /\ Cardinality(MatchCalls) = i - 1
        /\ \A k \in MatchCalls :
                /\ calls[k].idx = k - 2
                /\ calls[k].id = matchIDs[k - 2]
        /\ pc = "daystats-finish" => Cardinality(MatchCalls) = Len(matchIDs)
        /\ wins = Cardinality(Counting(TRUE))
        /\ losses = Cardinality(Counting(FALSE))
        /\ wins + losses <= Len(matchIDs)

\* two ids: the first fetch fails, the second is fetched and counted as a win
\* although the player is not its first participant
C12_Witness ==
    /\ DayStatsRunning
    /\ pc = "daystats-finish"
    /\ Len(matchIDs) = 2
    /\ ~calls[3].ok
    /\ calls[4].ok
    /\ calls[4].resp.Participants[1].PUUID # MyPUUID
    /\ wins = 1
    /\ losses = 0

\* the text of the last message sent or edited
LastText == chat[Len(chat)].text

\* C13: when the match-id query answers with no id, !daystats reports that no
\* ranked game was played and ends without any match-detail call; after a
\* failed account or match-id call no further remote call is issued.
C13_ShortCircuit ==
    DayStatsRunning =>
        /\ \A k \in 1..Len(calls) :
                (calls[k].api \in {"account", "match-ids"} /\ ~calls[k].ok) =>
                    (k = Len(calls) /\ pc = "done")
        /\ (Len(calls) >= 2 /\ calls[2].ok /\ Len(matchIDs) = 0) =>
                /\ calls[2].api = "match-ids"
                /\ Len(calls) = 2
                /\ pc = "done"
                /\ LastText = Text("daystats-no-games", riotID)

\* the match-id query answered with no id and the command has ended
C13_Witness ==
    /\ DayStatsRunning
    /\ pc = "done"
    /\ Len(calls) = 2
    /\ calls[1].ok /\ calls[2].ok
    /\ matchIDs = <<>>
    /\ LastText.kind = "daystats-no-games"

\* C14: whenever the edit of the placeholder with a completion message fails,
\* a fresh message with the same text is sent next.
C14_FailedEditFallsBackToSend ==
    \A k \in 1..Len(chat) :
        (chat[k].op = "edit" /\ ~chat[k].ok) =>
            /\ k < Len(chat)
            /\ chat[k + 1].op = "send"
            /\ chat[k + 1].text = chat[k].text

\* a line of the store that sets the roster key
IsRosterLine(line) == Len(line) >= 12 /\ SubSeq(line, 1, 12) = <<"L", "O", "L", "_", "P", "L", "A", "Y", "E", "R", "S", "=">>

\* the comma-separated value of the store's first roster line, <<>> without one
RosterValue(file) ==
    IF file.exists /\ \E k \in 1..Len(file.lines) : IsRosterLine(file.lines[k])
    THEN LET k == CHOOSE n \in 1..Len(file.lines) :
                    /\ IsRosterLine(file.lines[n])
                    /\ \A j \in 1..(n - 1) : ~IsRosterLine(file.lines[j])
         IN  SubSeq(file.lines[k], 13, Len(file.lines[k]))
    ELSE <<>>

\* how many items of the store's player list are the identity
Occurrences(file, id) ==
    LET v == RosterValue(file)
        n == Len(id)
    IN  Cardinality({p \in 1..Len(v) :
            /\ p + n - 1 <= Len(v)
            /\ SubSeq(v, p, p + n - 1) = id
            /\ (p = 1 \/ v[p - 1] = ",")
            /\ (p + n > Len(v) \/ v[p + n] = ",")})

\* the !add command has just run addPlayerToEnvFile without error
Upserted == pc = "add-file" /\ chat'[Len(chat')].text.kind = "add-done"

StoreLines(file) ==
    IF ~file.exists THEN <<>>
    ELSE IF file.lines[Len(file.lines)] = <<>>
         THEN SubSeq(file.lines, 1, Len(file.lines) - 1)
         ELSE file.lines

NotRosterLine(line) == ~IsRosterLine(line)

HasRosterLine(file) == \E k \in 1..Len(StoreLines(file)) : IsRosterLine(StoreLines(file)[k])

RECURSIVE StripBlank(_)
\* the lines without the empty lines at their end
StripBlank(lines) ==
    IF Len(lines) > 0 /\ lines[Len(lines)] = <<>>
    THEN StripBlank(SubSeq(lines, 1, Len(lines) - 1))
    ELSE lines

\* what an upsert does to an absent store and to a store without roster line
CreatesOrAppends ==
    /\ ~envFile.exists => StoreLines(envFile') = <<<<"L", "O", "L", "_", "P", "L", "A", "Y", "E", "R", "S", "=">> \o riotID>>
    /\ (envFile.exists /\ ~HasRosterLine(envFile)) =>
            StoreLines(envFile') = StoreLines(envFile) \o <<<<"L", "O", "L", "_", "P", "L", "A", "Y", "E", "R", "S", "=">> \o riotID>>

\* C16 as stated: an upsert preserves every line that is not the roster
\* key's, content and order; it creates an absent store with the roster line
\* alone and appends a missing roster line after the existing lines.
C16_OtherLinesPreserved ==
    [][Upserted =>
          /\ SelectSeq(StoreLines(envFile'), NotRosterLine)
                = SelectSeq(StoreLines(envFile), NotRosterLine)
          /\ CreatesOrAppends
      ]_vars

\* C16 as amended: a successful upsert that rewrites the roster line keeps
\* every other line up to the last non-empty line, content and position, and
\* drops only empty lines at the end of the store; it creates an absent store
\* with the roster line alone and appends a missing roster line after the
\* existing lines, all of them kept.
C16_LinesPreservedButTrailingBlank ==
    [][Upserted =>
          /\ HasRosterLine(envFile) =>
                LET before == StripBlank(StoreLines(envFile))
                    after  == StripBlank(StoreLines(envFile'))
                IN  /\ Len(after) = Len(before)
                    /\ \A k \in 1..Len(before) :
                            \/ after[k] = before[k]
                            \/ IsRosterLine(before[k]) /\ IsRosterLine(after[k])
          /\ CreatesOrAppends
          /\ envFile'.lines[Len(envFile'.lines)] = <<>> \/ envFile' = envFile
      ]_vars

\* a#b upserted into the store with lines A=1, an empty line, the roster line
\* of b#a and three empty lines
C16_Witness ==
    /\ pc = "done"
    /\ Command = "add"
    /\ LastText = Text("add-done", <<"a", "#", "b">>)
    /\ envFile.lines = <<<<"A", "=", "1">>, <<>>, <<"L", "O", "L", "_", "P", "L", "A", "Y", "E", "R", "S", "=", "b", "#", "a", ",", "a", "#", "b">>, <<>>>>

\* an identity without separator, with an empty tag or with an empty name
BadIdentity(id) ==
    \/ SepCount(id) = 0
    \/ id[Len(id)] = "#"
    \/ id[1] = "#"

\* the date argument of a !daystats a#b message, <<>> without one
DateArgOf(content) ==
    IF Len(content) > 14 /\ SubSeq(content, 1, 14) = <<"!", "d", "a", "y", "s", "t", "a", "t", "s", " ", "a", "#", "b", " ">>
    THEN SubSeq(content, 15, Len(content))
    ELSE <<>>

\* a date argument that writes no calendar date
BadDateArg(content) == DateArgOf(content) # <<>> /\ WrittenDate(DateArgOf(content)) = <<>>

RejectionKinds == {"add-missing", "add-bad-format", "daystats-bad-format", "daystats-bad-date"}

\* C17: !add and !daystats answer an identity without '#', with an empty tag
\* or with an empty name, and !daystats a date that is no YYYYMMDD date, with
\* one message at once: no remote call is issued and the roster, in memory
\* and in the file, stays as it is.
C17_RejectedBeforeAnyCall ==
    [][/\ (/\ pc = "idle"
           /\ Command' \in {"add", "daystats"}
           /\ BadIdentity(riotID') \/ (Command' = "daystats" /\ BadDateArg(msg'.content))) =>
            /\ pc' = "done"
            /\ calls' = <<>>
            /\ Len(chat') = 1
            /\ chat'[1].op = "send"
            /\ chat'[1].text.kind \in RejectionKinds
            /\ UNCHANGED <<lolPlayersEnv, envFile>>
       /\ (pc = "done" /\ calls = <<>>) =>
            /\ calls' = <<>>
            /\ UNCHANGED <<lolPlayersEnv, envFile>>
      ]_vars

\* "!add a#" was answered with the format message and nothing was called
C17_Witness ==
    /\ pc = "done"
    /\ msg.content = <<"!", "a", "d", "d", " ", "a", "#">>
    /\ calls = <<>>
    /\ chat = <<Send(Text("add-bad-format", <<>>), TRUE)>>

\* C18: !add changes nothing when the account call fails; when the file
\* upsert fails it reports the failure and leaves the roster in memory as it
\* is; the file is written only after the account was resolved, and the
\* roster in memory gains the identity only with a successful file upsert.
C18_PersistsOnlyVerified ==
    [][/\ (pc = "add-account" /\ ~calls'[Len(calls')].ok) =>
            /\ UNCHANGED <<lolPlayersEnv, envFile>>
            /\ pc' = "done"
            /\ chat'[Len(chat')].text = Text("add-unverified", riotID)
       /\ (pc = "add-file" /\ ~Upserted) =>
            /\ UNCHANGED lolPlayersEnv
            /\ chat'[Len(chat')] \in {Send(Text("add-failed", riotID), ok) : ok \in BOOLEAN}
       /\ envFile' # envFile =>
            /\ pc = "add-file"
            /\ Len(calls) = 1 /\ calls[1].api = "account" /\ calls[1].ok /\ calls[1].id = riotID
       /\ lolPlayersEnv' # lolPlayersEnv =>
            /\ Upserted
            /\ Len(calls) = 1 /\ calls[1].api = "account" /\ calls[1].ok /\ calls[1].id = riotID
            /\ lolPlayersEnv' = Append(lolPlayersEnv, riotID)
            /\ Occurrences(envFile', riotID) >= 1
      ]_vars

\* the account of b#a was resolved, the file upsert failed: the failure is
\* reported and the roster in memory is still empty
C18_Witness ==
    /\ pc = "done"
    /\ Command = "add"
    /\ riotID = <<"b", "#", "a">>
    /\ Len(calls) = 1 /\ calls[1].ok
    /\ LastText = Text("add-failed", <<"b", "#", "a">>)
    /\ lolPlayersEnv = <<>>

\* the roster members whose league-entries call succeeded: the results collected
Collected == {k \in 1..Len(lolPlayersEnv) : Succeeded("league", k)}

\* the messages that carry a leaderboard
Lists == {k \in 1..Len(chat) : chat[k].text.kind = "ranking"}

\* C19: !ranking ends an empty roster with the not-configured text and a
\* roster of which no member was collected with the no-data text, neither
\* with a numbered line; a leaderboard is delivered only when at least one
\* result was collected, and then holds a numbered line.
C19_NeverAnEmptyList ==
    (pc = "done" /\ Command = "ranking") =>
        /\ Len(lolPlayersEnv) = 0 =>
                chat \in {<<Send(Text("no-players-configured", <<>>), ok)>> : ok \in BOOLEAN}
        /\ (Len(lolPlayersEnv) > 0 /\ Collected = {}) =>
                /\ Len(chat) >= 2
                /\ \A k \in 2..Len(chat) : chat[k].text = Text("no-data", <<>>)
        /\ \A k \in Lists :
                /\ Collected # {}
                /\ Len(chat[k].text.body) = 1 + Cardinality(Collected)
                /\ chat[k].text.body[1] = "title"

\* a roster of two, both members failed: the no-data text and no list
C19_Witness ==
    /\ pc = "done"
    /\ Command = "ranking"
    /\ Len(lolPlayersEnv) = 2
    /\ Len(calls) = 2
    /\ ~calls[1].ok /\ ~calls[2].ok
    /\ LastText = Text("no-data", <<>>)
    /\ Lists = {}

\* C20: no in-process variable written by one invocation outlives it: an
\* invocation leaves the roster in memory as it found it, and between
\* invocations every other variable of the handler holds its initial value.
C20_NoSharedInProcessState ==
    [][/\ lolPlayersEnv' = lolPlayersEnv
       /\ pc' = "idle" =>
            /\ i' = 1
            /\ summonerNames' = <<>>
            /\ playerRanks' = <<>>
            /\ rankedMessages' = <<>>
            /\ rankInfos' = <<>>
            /\ processingMsg' = FALSE
            /\ riotID' = <<>>
            /\ matchIDs' = <<>>
            /\ wins' = 0
            /\ losses' = 0
      ]_vars

\* the elements the loop of the command in progress runs over
LoopElements ==
    IF Command = "ranking" THEN lolPlayersEnv
    ELSE IF Command = "rank" THEN summonerNames
    ELSE matchIDs

\* an earlier call of this api for the same element that succeeded
SucceededBefore(l, api) ==
    \E k \in 1..(l - 1) : calls[k].api = api /\ calls[k].idx = calls[l].idx /\ calls[k].ok

\* C21: nothing is retried and the steps are ordered. In !ranking and !rank
\* each player gets at most one account, one summoner and one league-entries
\* call, the summoner call after its account call succeeded, the
\* league-entries call after its summoner call succeeded. A !daystats
\* invocation issues exactly one account call, at most one match-id query
\* after it succeeded, and at most one match-detail call per returned id.
C21_NoRetryOrderedSteps ==
    /\ \A k, l \in 1..Len(calls) :
            (k < l) => ~(calls[k].api = calls[l].api /\ calls[k].idx = calls[l].idx)
    /\ \A l \in 1..Len(calls) :
            /\ calls[l].api = "summoner" => SucceededBefore(l, "account")
            /\ calls[l].api = "league" => SucceededBefore(l, "summoner")
            /\ calls[l].api = "match-ids" => SucceededBefore(l, "account")
            /\ calls[l].api = "match" =>
                    /\ calls[2].api = "match-ids" /\ calls[2].ok
                    /\ calls[l].idx \in 1..Len(matchIDs)
            /\ Command \in {"ranking", "rank"} =>
                    /\ calls[l].api \in {"account", "summoner", "league"}
                    /\ calls[l].idx \in 1..Len(LoopElements)
                    /\ calls[l].id = LoopElements[calls[l].idx]
            /\ Command = "daystats" => calls[l].api \in {"account", "match-ids", "match"}
    /\ (DayStatsRunning /\ pc = "done") =>
            Cardinality({l \in 1..Len(calls) : calls[l].api = "account"}) = 1

\* !ranking over two members: the first failed at its summoner call and got
\* no league-entries call, the second got its three calls
C21_Witness ==
    /\ Command = "ranking"
    /\ pc = "done"
    /\ Len(lolPlayersEnv) = 2
    /\ Len(calls) = 5
    /\ calls[1].api = "account" /\ calls[1].ok
    /\ calls[2].api = "summoner" /\ ~calls[2].ok
    /\ calls[3].api = "account" /\ calls[3].idx = 2
    /\ calls[5].api = "league"

\* the words of the message after the command word
Arguments == Tail(Split(msg.content, " "))

\* the call of this api for argument k, when it was issued
CallOf(api, k) == calls[CHOOSE l \in 1..Len(calls) : calls[l].api = api /\ calls[l].idx = k]

\* the positions of the ranked-solo entries of a league-entries answer
SoloPositions(leagueEntries) ==
    {p \in 1..Len(leagueEntries) : leagueEntries[p].QueueType = <<"R", "A", "N", "K", "E", "D", "_", "S", "O", "L", "O", "_", "5", "x", "5">>}

\* what the line of argument k must say, given what its calls answered
ExpectedRankLine(k) ==
    LET id == Arguments[k]
    IN  IF SepCount(id) # 1 THEN [id |-> id, kind |-> "bad-format", entry |-> <<>>]
        ELSE IF ~Succeeded("account", k) THEN [id |-> id, kind |-> "account-error", entry |-> <<>>]
        ELSE IF ~Succeeded("summoner", k) THEN [id |-> id, kind |-> "summoner-error", entry |-> <<>>]
        ELSE IF ~Succeeded("league", k) THEN [id |-> id, kind |-> "league-error", entry |-> <<>>]
        ELSE LET leagueEntries == CallOf("league", k).resp
                 solo == SoloPositions(leagueEntries)
             IN  IF solo = {} THEN [id |-> id, kind |-> "no-solo", entry |-> <<>>]
                 ELSE [id |-> id, kind |-> "solo",
                       entry |-> leagueEntries[CHOOSE p \in solo : \A q \in solo : p <= q]]

\* C22: !rank isolates failures per argument. Whatever arguments are malformed
\* and whatever calls fail, every argument is processed, and the reply holds
\* exactly one line per argument, in argument order: the player's solo
\* standing, the no-solo-rank text, or the error text of the step that failed
\* for that argument.
C22_OneLinePerArgument ==
    (Command = "rank" /\ Len(Arguments) > 0) =>
        /\ pc = "rank-loop" => Len(rankInfos) = i - 1
        /\ pc \in {"rank-finish", "done"} =>
                /\ Len(rankInfos) = Len(Arguments)
                /\ \A k \in 1..Len(Arguments) :
                        /\ rankInfos[k] = ExpectedRankLine(k)
                        /\ SepCount(Arguments[k]) = 1 <=> Issued("account", k)
        /\ pc = "done" =>
                /\ Len(chat) = 1
                /\ chat[1].op = "send"
                /\ chat[1].text = [kind |-> "rank", body |-> rankInfos]

\* two arguments: the account call of the first failed, the second has a
\* solo standing, and the reply was sent
C22_Witness ==
    /\ Command = "rank"
    /\ pc = "done"
    /\ Len(Arguments) = 2
    /\ rankInfos[1].kind = "account-error"
    /\ rankInfos[2].kind = "solo"
    /\ Len(chat) = 1

\* whether the text begins with the word
StartsWith(content, word) ==
    /\ Len(content) >= Len(word)
    /\ \A k \in 1..Len(word) : content[k] = word[k]

\* the handlers the message is meant for
MeantFor(author, content) ==
    IF author = BotID THEN {}
    ELSE {h \in {"ranking", "rank", "add", "daystats", "help"} :
            \/ h = "ranking" /\ content = <<"!", "r", "a", "n", "k", "i", "n", "g">>
            \/ h = "rank" /\ StartsWith(content, <<"!", "r", "a", "n", "k">>) /\ content # <<"!", "r", "a", "n", "k", "i", "n", "g">>
            \/ h = "add" /\ StartsWith(content, <<"!", "a", "d", "d", " ">>)
            \/ h = "daystats" /\ StartsWith(content, <<"!", "d", "a", "y", "s", "t", "a", "t", "s", " ">>)
            \/ h = "help" /\ content = <<"!", "h", "e", "l", "p">>}

\* the kind of the first message posted, "" when none was
FirstKind == IF Len(chat) = 0 THEN "" ELSE chat[1].text.kind

\* the handlers whose entry shows in the state right after the message arrived
Entered ==
    {h \in {"ranking", "rank", "add", "daystats", "help"} :
        \/ h = "ranking" /\ (pc = "ranking-loop" \/ FirstKind = "no-players-configured")
        \/ h = "rank" /\ (pc = "rank-loop" \/ FirstKind = "rank-usage")
        \/ h = "add" /\ (pc = "add-account"
                            \/ FirstKind \in {"add-missing", "add-bad-format", "add-duplicate"})
        \/ h = "daystats" /\ (pc = "daystats-account"
                            \/ FirstKind \in {"daystats-usage", "daystats-bad-format",
                                              "daystats-bad-date"})
        \/ h = "help" /\ FirstKind = "help"}

\* C26: dispatch runs at most one handler per message and none for a message
\* of the bot itself. Exactly "!ranking" runs the leaderboard, every other
\* message beginning with "!rank" runs the rank lookup, the prefixes "!add "
\* and "!daystats " run their handlers, exactly "!help" runs the help, and
\* any other message is answered by no message and no remote call.
C26_DispatchSelectsOneHandler ==
    [][ /\ (pc = "idle" /\ pc' # "idle") =>
                /\ Entered' = MeantFor(msg'.author, msg'.content)
                /\ Cardinality(Entered') <= 1
        /\ (pc' # "idle" /\ MeantFor(msg'.author, msg'.content) = {}) =>
                /\ pc' = "done"
                /\ chat' = <<>>
                /\ calls' = <<>>
                /\ UNCHANGED <<lolPlayersEnv, envFile>> ]_vars

\* "!ranking" followed by further text arrived and the rank lookup took it
C26_Witness ==
    /\ msg.author = UserID
    /\ msg.content = <<"!", "r", "a", "n", "k", "i", "n", "g", " ", "x">>
    /\ pc = "rank-loop"
    /\ Entered = {"rank"}

\* the position of the j-th comma of the value: 0 before the first item,
\* one past the end after the last
CommaAt(v, j) ==
    LET commas == {p \in 1..Len(v) : v[p] = ","}
    IN  IF j = 0 THEN 0
        ELSE IF j > Cardinality(commas) THEN Len(v) + 1
        ELSE CHOOSE p \in commas : Cardinality({q \in commas : q < p}) = j - 1

\* the player list of the store: the items its roster line separates by
\* commas, none when the line is missing or its value empty
PlayerList(file) ==
    LET v == RosterValue(file)
        n == Cardinality({p \in 1..Len(v) : v[p] = ","}) + 1
    IN  IF v = <<>> THEN <<>>
        ELSE [j \in 1..n |-> SubSeq(v, CommaAt(v, j - 1) + 1, CommaAt(v, j) - 1)]

\* C25: started with the roster in memory equal to the store's player list,
\* after any sequence of !add invocations that do not overlap, whether they
\* succeed, are rejected or fail, the roster in memory is still the store's
\* player list, in the same order.
C25_RosterEqualsFileList == lolPlayersEnv = PlayerList(envFile)

\* the ends of an !add invocation
AddEnded(p) == adds[p].pc \in {"duplicate", "unverified", "failed", "replied"}

\* C23: when !add invocations for distinct identities overlap, under every
\* interleaving, once all have ended every identity whose invocation sent the
\* success message is in the store's player list: no update is lost.
C23_NoLostUpdate ==
    ( /\ \A p \in Procs : AddEnded(p)
      /\ \A p, q \in Procs : p # q => adds[p].riotID # adds[q].riotID )
    => \A p \in Procs : adds[p].pc = "replied" => Occurrences(envFile, adds[p].riotID) > 0

\* C24: when !add invocations overlap, under every interleaving, the roster
\* in memory, without duplicate at the start, never holds an identity twice.
C24_NoDuplicateInMemory ==
    \A k, l \in 1..Len(lolPlayersEnv) : k # l => lolPlayersEnv[k] # lolPlayersEnv[l]

====
